---- MODULE Spec2Model ----
(***************************************************************************)
(* Color scale generator: the colour-space conversions, the WCAG contrast  *)
(* evaluation, the accessible-colour search, the scale generator and the   *)
(* dark-mode transform, as state machines over their inputs and results.   *)
(*                                                                         *)
(* Numbers.  JavaScript numbers are modelled as exact rationals <<n, d>>   *)
(* in lowest terms with d > 0; <<1, 0>> is Infinity.  RGB channels and     *)
(* levels are integers.  Relative luminance is carried in units of 10^-9.  *)
(***************************************************************************)
EXTENDS Integers, Sequences, FiniteSets, TLC

VARIABLES
    pc,             \* which operation has been applied to the inputs
    originalHSL,    \* findAccessibleColor: its argument
    accessibleHSL,  \* findAccessibleColor: its return value
    inputHSL,        \* generateColorScale: its argument
    colorScale,     \* generateColorScale: its return value
    lightModeScale, \* generateDarkModeScale: its first argument
    accessibleScale,\* generateDarkModeScale: its second argument, or null
    darkBasis,      \* generateDarkModeScale: its local baseScale (the basis)
    darkModeScale,  \* generateDarkModeScale: its return value
    colorA,           \* getContrastRatio: its first argument
    colorB,           \* getContrastRatio: its second argument
    ratioAB,        \* getContrastRatio(colorA, colorB)
    ratioBA,        \* getContrastRatio(colorB, colorA)
    hexInput,       \* baseColorInput.value: the text of the colour field
    colorPickerValue,    \* colorPicker.value
    colorPreview,        \* colorPreview.style.backgroundColor
    errorDisplay,        \* errorMessage.style.display
    currentColorName,    \* the module's currentColorName, shown in colorNameElement
    statusText,          \* originalAccessibility.textContent
    alternativeDisplay,  \* alternativeScaleSection.style.display
    renderedScale,       \* the scale rendered into the colorScale container
    renderedAlternative, \* the scale rendered into alternativeColorScale
    cssOutput,           \* the arguments of the last updateCSSOutputs
    colorNameCache,      \* color-names-api.js: the Map from key to name
    calls,               \* the updateColorScales / getCachedColorName calls made
    repeatedHSL,         \* findAccessibleColor applied to its own return value
    genericName,         \* the return value of getGenericColorName(inputHSL)
    isDarkModeActive     \* ui-controller.js: the mode the scales are shown in

coreVars == <<originalHSL, accessibleHSL, inputHSL, colorScale,
              lightModeScale, accessibleScale, darkBasis, darkModeScale>>

contrastVars == <<colorA, colorB, ratioAB, ratioBA>>

\* the variables the accessible-colour search, the scale generator and the
\* dark-mode transform leave alone
hexVars == <<hexInput>>

domVars == <<colorPickerValue, colorPreview, errorDisplay, currentColorName,
             statusText, alternativeDisplay, renderedScale, renderedAlternative,
             cssOutput>>

nameVars == <<colorNameCache, calls>>

resultVars == <<repeatedHSL, genericName>>

modeVars == <<isDarkModeActive>>

extraVars == <<contrastVars, hexVars, domVars, nameVars, resultVars, modeVars>>

vars == <<pc, coreVars, extraVars>>

\* null is told apart from every array (a scale, [] included) and from every
\* HSL triple; undefined is told apart from every record.
null == <<"null">>

undefined == [undefined |-> TRUE]

\* Variables of operations that have not been applied hold null
CoreIdle ==
    /\ originalHSL = null
    /\ accessibleHSL = null
    /\ inputHSL = null
    /\ colorScale = null
    /\ lightModeScale = null
    /\ accessibleScale = null
    /\ darkBasis = null
    /\ darkModeScale = null

ContrastIdle ==
    /\ colorA = null
    /\ colorB = null
    /\ ratioAB = null
    /\ ratioBA = null

HexIdle == hexInput = null

DomIdle ==
    /\ colorPickerValue = null
    /\ colorPreview = null
    /\ errorDisplay = null
    /\ currentColorName = null
    /\ statusText = null
    /\ alternativeDisplay = null
    /\ renderedScale = null
    /\ renderedAlternative = null
    /\ cssOutput = null

NameIdle ==
    /\ colorNameCache = null
    /\ calls = null

ResultIdle == repeatedHSL = null /\ genericName = null

ModeIdle == isDarkModeActive = null

ExtraIdle == ContrastIdle /\ HexIdle /\ DomIdle /\ NameIdle /\ ResultIdle /\ ModeIdle

---------------------------------------------------------------------------
(* Rational arithmetic                                                     *)

Abs(x) == IF x < 0 THEN -x ELSE x

RECURSIVE Gcd(_, _)
Gcd(a, b) == IF b = 0 THEN a ELSE Gcd(b, a % b)

\* n/d divided through by a common divisor g
Reduced(n, d, g) == <<n \div g, d \div g>>

\* n/d in lowest terms, d > 0
Rat(n, d) == Reduced(n, d, Gcd(Abs(n), d))

Num(n) == <<n, 1>>

Infinity == <<1, 0>>

\* a + b over the least common denominator, g the gcd of the denominators
AddOver(a, b, g) ==
    Rat(a[1] * (b[2] \div g) + b[1] * (a[2] \div g), (a[2] \div g) * b[2])

AddQ(a, b) == AddOver(a, b, Gcd(a[2], b[2]))

NegQ(a) == <<-a[1], a[2]>>

SubQ(a, b) == AddQ(a, NegQ(b))

\* a * b with the common divisors g1 (of a's numerator and b's denominator)
\* and g2 (of b's numerator and a's denominator) cancelled first
MulCancelled(a, b, g1, g2) ==
    <<(a[1] \div g1) * (b[1] \div g2), (a[2] \div g2) * (b[2] \div g1)>>

MulQ(a, b) == MulCancelled(a, b, Gcd(Abs(a[1]), b[2]), Gcd(Abs(b[1]), a[2]))

\* a / k for an integer k > 0
DivQ(a, k) == MulQ(a, <<1, k>>)

\* a < b; holds of every finite a against Infinity, never of Infinity
LessQ(a, b) == a[1] * b[2] < b[1] * a[2]

LeqQ(a, b) == a[1] * b[2] <= b[1] * a[2]

MinQ(a, b) == IF LessQ(b, a) THEN b ELSE a

MaxQ(a, b) == IF LessQ(a, b) THEN b ELSE a

AbsQ(a) == <<Abs(a[1]), a[2]>>

SqQ(a) == <<a[1] * a[1], a[2] * a[2]>>

\* floor(a) for a >= 0 or a < 0 alike (\div rounds toward minus infinity)
FloorQ(a) == a[1] \div a[2]

---------------------------------------------------------------------------
(* Strings are sequences of one-character strings                          *)

UpperHexDigits == <<"0", "1", "2", "3", "4", "5", "6", "7",
                    "8", "9", "A", "B", "C", "D", "E", "F">>

LowerHexDigits == <<"0", "1", "2", "3", "4", "5", "6", "7",
                    "8", "9", "a", "b", "c", "d", "e", "f">>

\* [A-Fa-f0-9]
IsHexDigit(c) ==
    c \in { UpperHexDigits[i] : i \in 1..16 } \cup { LowerHexDigits[i] : i \in 1..16 }

\* the value parseInt(c, 16) gives a hex digit, in either letter case
hexDigitValue(c) ==
    (CHOOSE i \in 1..16 : c = UpperHexDigits[i] \/ c = LowerHexDigits[i]) - 1

lowerChar(c) ==
    IF \E i \in 11..16 : c = UpperHexDigits[i]
    THEN LowerHexDigits[CHOOSE i \in 11..16 : c = UpperHexDigits[i]]
    ELSE c

\* String.prototype.toLowerCase on strings of hex digits and "#"
toLowerCase(str) == [ i \in 1..Len(str) |-> lowerChar(str[i]) ]

\* str.replace(/^#/, '')
stripHash(str) == IF Len(str) > 0 /\ str[1] = "#" THEN Tail(str) ELSE str

RECURSIVE trimStart(_)
trimStart(str) ==
    IF Len(str) > 0 /\ str[1] = " " THEN trimStart(Tail(str)) ELSE str

RECURSIVE trimEnd(_)
trimEnd(str) ==
    IF Len(str) > 0 /\ str[Len(str)] = " "
    THEN trimEnd(SubSeq(str, 1, Len(str) - 1))
    ELSE str

\* String.prototype.trim for strings whose only white space is " "
trim(str) == trimEnd(trimStart(str))

---------------------------------------------------------------------------
(* color-utils.js                                                          *)

\* <<q, r>> with 2^k * (q0 * m + r0) = q * m + r and 0 <= r < m, by doubling,
\* so that no intermediate value leaves the 32-bit range
RECURSIVE doubled(_, _, _, _)
doubled(q, r, m, k) ==
    IF k = 0 THEN <<q, r>>
    ELSE IF 2 * r >= m THEN doubled(2 * q + 1, 2 * r - m, m, k - 1)
    ELSE doubled(2 * q, 2 * r, m, k - 1)

\* floor(255 n / m + 1/2) from d = <<q, r>> with 256 n = q m + r: 255 n is
\* 256 n - n, and n = q0 m + r0
RoundFrom(q0, r0, m, d) ==
    LET quot == IF d[2] >= r0 THEN d[1] - q0 ELSE d[1] - q0 - 1
        rem  == IF d[2] >= r0 THEN d[2] - r0 ELSE d[2] - r0 + m
    IN  quot + (IF 2 * rem >= m THEN 1 ELSE 0)

\* Math.round(255 * n / m) for 0 <= n, m > 0
Round255(n, m) == RoundFrom(n \div m, n % m, m, doubled(n \div m, n % m, m, 8))

\* hue2rgb(p, q, t) with p = P/D, q = Q/D and t = un/(6*ud): the result's
\* numerator over D*ud.  The breakpoints 1/6, 1/2, 2/3 of t are 1, 3, 4 of 6t,
\* and h + 1/3, h - 1/3 are 6h + 2, 6h - 2.
hue2rgb(P, Q, un, ud) ==
    LET t1 == IF un < 0 THEN un + 6 * ud ELSE un
        t2 == IF t1 > 6 * ud THEN t1 - 6 * ud ELSE t1
    IN  IF t2 < ud THEN P * ud + (Q - P) * t2
        ELSE IF t2 < 3 * ud THEN Q * ud
        ELSE IF t2 < 4 * ud THEN P * ud + (Q - P) * (4 * ud - t2)
        ELSE P * ud

\* The channels for s = s[1]/s[2], l = l[1]/l[2] in 0..1 and 6h = u[1]/u[2]:
\* q = Q/D and p = P/D with D = s[2] * l[2]
channels(s, l, u) ==
    LET ud == u[2]
        D  == s[2] * l[2]
        Q  == IF 2 * l[1] < l[2]
              THEN l[1] * (s[2] + s[1])
              ELSE l[1] * s[2] + s[1] * l[2] - l[1] * s[1]
        P  == 2 * l[1] * s[2] - Q
    IN  << Round255(hue2rgb(P, Q, u[1] + 2 * ud, ud), D * ud),
           Round255(hue2rgb(P, Q, u[1], ud), D * ud),
           Round255(hue2rgb(P, Q, u[1] - 2 * ud, ud), D * ud) >>

\* r = g = b = l
achromatic(c) == <<c, c, c>>

hslToRgb(hsl) ==
    IF hsl[2][1] = 0
    THEN achromatic(Round255(hsl[3][1], 100 * hsl[3][2]))
    ELSE channels(Rat(hsl[2][1], 100 * hsl[2][2]),
                  Rat(hsl[3][1], 100 * hsl[3][2]),
                  Rat(hsl[1][1], 60 * hsl[1][2]))

\* parseInt of a two-digit substring, base 16
parsePair(hex, i) == 16 * hexDigitValue(hex[i]) + hexDigitValue(hex[i + 1])

\* the three-digit shorthand doubled digit by digit
expandShort(hex) ==
    IF Len(hex) = 3
    THEN <<hex[1], hex[1], hex[2], hex[2], hex[3], hex[3]>>
    ELSE hex

rgbOfDigits(hex) == <<parsePair(hex, 1), parsePair(hex, 3), parsePair(hex, 5)>>

\* hexToRgb of a string isValidHex accepts, with or without "#"
hexToRgb(hex) == rgbOfDigits(expandShort(stripHash(hex)))

\* h before the division by 6, as <<numerator, denominator d>>: the switch on
\* max tests r first, then g, then b
hueSextant(r, g, b, max, d) ==
    IF max = r THEN <<(g - b) + (IF g < b THEN 6 * d ELSE 0), d>>
    ELSE IF max = g THEN <<(b - r) + 2 * d, d>>
    ELSE <<(r - g) + 4 * d, d>>

\* Variant of the chromatic branch whose saturation always divides by
\* max + min
chromaticOf_DarkFormula(r, g, b, max, min) ==
    << Rat(60 * hueSextant(r, g, b, max, max - min)[1], max - min),
       Rat(100 * (max - min), max + min),
       Rat(100 * (max + min), 510) >>

\* The chromatic branch of rgbToHSL on channels r/255, g/255, b/255:
\* l = (max + min) / 510, and l > 0.5 selects d / (2 - max - min)
chromaticOf(r, g, b, max, min) ==
    << Rat(60 * hueSextant(r, g, b, max, max - min)[1], max - min),
       Rat(100 * (max - min),
           IF max + min > 255 THEN 510 - (max + min) ELSE max + min),
       Rat(100 * (max + min), 510) >>

Max3(a, b, c) == IF a >= b /\ a >= c THEN a ELSE IF b >= c THEN b ELSE c

Min3(a, b, c) == IF a <= b /\ a <= c THEN a ELSE IF b <= c THEN b ELSE c

rgbToHSLOf(r, g, b, max, min) ==
    IF max = min
    THEN <<Num(0), Num(0), Rat(100 * (max + min), 510)>>
    ELSE chromaticOf(r, g, b, max, min)

rgbToHSL(rgb) ==
    rgbToHSLOf(rgb[1], rgb[2], rgb[3],
               Max3(rgb[1], rgb[2], rgb[3]), Min3(rgb[1], rgb[2], rgb[3]))

hexToHSL(hex) == rgbToHSL(hexToRgb(hex))

\* /^#([A-Fa-f0-9]{6}|[A-Fa-f0-9]{3})$/
isValidHex(color) ==
    /\ Len(color) \in {4, 7}
    /\ color[1] = "#"
    /\ \A i \in 2..Len(color) : IsHexDigit(color[i])

addHash(color) ==
    IF Len(color) > 0 /\ color[1] = "#" THEN color ELSE <<"#">> \o color

normalizeHex(color) == addHash(trim(color))

HexDigits == <<"0", "1", "2", "3", "4", "5", "6", "7",
               "8", "9", "a", "b", "c", "d", "e", "f">>

\* c.toString(16), left-padded with "0" to two digits, for c in 0..255
toHex(c) ==
    IF c < 16 THEN <<"0", HexDigits[c + 1]>>
    ELSE <<HexDigits[(c \div 16) + 1], HexDigits[(c % 16) + 1]>>

\* A hex colour string is the sequence of its characters
rgbToHexString(rgb) == <<"#">> \o toHex(rgb[1]) \o toHex(rgb[2]) \o toHex(rgb[3])

hslToHex(hsl) == rgbToHexString(hslToRgb(hsl))

---------------------------------------------------------------------------
(* accessibility.js                                                        *)

\* The sRGB linearisation of a channel value v in 0..255, in units of 10^-9:
\* v/255 <= 0.03928 ? (v/255)/12.92 : ((v/255 + 0.055)/1.055)^2.4
sRGBLinear == <<
    0, 303527, 607054, 910581, 1214108, 1517635, 1821162, 2124689,
    2428216, 2731743, 3035270, 3346536, 3676507, 4024717, 4391442, 4776953,
    5181517, 5605392, 6048833, 6512091, 6995410, 7499032, 8023193, 8568126,
    9134059, 9721217, 10329823, 10960094, 11612245, 12286488, 12983032, 13702083,
    14443844, 15208514, 15996293, 16807376, 17641954, 18500220, 19382361, 20288563,
    21219010, 22173885, 23153366, 24157632, 25186860, 26241222, 27320892, 28426040,
    29556834, 30713444, 31896033, 33104767, 34339807, 35601315, 36889450, 38204372,
    39546235, 40915197, 42311411, 43735029, 45186204, 46665086, 48171824, 49706566,
    51269458, 52860647, 54480276, 56128490, 57805430, 59511238, 61246054, 63010018,
    64803267, 66625939, 68478170, 70360096, 72271851, 74213568, 76185381, 78187422,
    80219820, 82282707, 84376212, 86500462, 88655586, 90841711, 93058963, 95307467,
    97587347, 99898728, 102241733, 104616484, 107023103, 109461711, 111932428, 114435374,
    116970668, 119538428, 122138772, 124771818, 127437680, 130136477, 132868322, 135633330,
    138431615, 141263291, 144128471, 147027266, 149959790, 152926152, 155926464, 158960835,
    162029376, 165132195, 168269400, 171441101, 174647404, 177888416, 181164244, 184474995,
    187820772, 191201683, 194617830, 198069320, 201556254, 205078736, 208636870, 212230757,
    215860500, 219526200, 223227957, 226965874, 230740049, 234550582, 238397574, 242281122,
    246201327, 250158285, 254152094, 258182853, 262250658, 266355605, 270497791, 274677312,
    278894263, 283148740, 287440838, 291770650, 296138271, 300543794, 304987314, 309468923,
    313988713, 318546778, 323143209, 327778098, 332451536, 337163615, 341914425, 346704056,
    351532600, 356400144, 361306780, 366252596, 371237680, 376262123, 381326011, 386429434,
    391572478, 396755231, 401977780, 407240212, 412542613, 417885071, 423267670, 428690497,
    434153636, 439657174, 445201195, 450785783, 456411023, 462077000, 467783796, 473531496,
    479320183, 485149940, 491020850, 496932995, 502886458, 508881321, 514917665, 520995573,
    527115126, 533276404, 539479489, 545724461, 552011402, 558340390, 564711506, 571124829,
    577580440, 584078418, 590618841, 597201788, 603827339, 610495571, 617206562, 623960392,
    630757136, 637596874, 644479682, 651405637, 658374817, 665387298, 672443157, 679542470,
    686685312, 693871761, 701101892, 708375780, 715693501, 723055129, 730460740, 737910409,
    745404210, 752942217, 760524505, 768151147, 775822218, 783537792, 791297940, 799102738,
    806952258, 814846572, 822785754, 830769877, 838799012, 846873232, 854992608, 863157213,
    871367119, 879622397, 887923118, 896269353, 904661174, 913098652, 921581856, 930110858,
    938685728, 947306537, 955973353, 964686248, 973445290, 982250550, 991102097, 1000000000>>

\* 0.2126 r + 0.7152 g + 0.0722 b in units of 10^-9; each channel is split
\* at 10^5 to keep the weighted sums in range.
calculateLuminance(rgb) ==
    LET r  == sRGBLinear[rgb[1] + 1]
        g  == sRGBLinear[rgb[2] + 1]
        b  == sRGBLinear[rgb[3] + 1]
        hi == 2126 * (r \div 100000) + 7152 * (g \div 100000) + 722 * (b \div 100000)
        lo == 2126 * (r % 100000) + 7152 * (g % 100000) + 722 * (b % 100000)
    IN  hi * 10 + lo \div 10000

\* Variant of the ratio that takes the luminances in argument order
ratioOf_ArgumentOrder(luminance1, luminance2) ==
    <<luminance1 + 50000000, luminance2 + 50000000>>

\* The ratio (lighter + 0.05) / (darker + 0.05) as <<numerator, denominator>>
ratioOf(luminance1, luminance2) ==
    LET lighter == IF luminance1 > luminance2 THEN luminance1 ELSE luminance2
        darker  == IF luminance1 < luminance2 THEN luminance1 ELSE luminance2
    IN  <<lighter + 50000000, darker + 50000000>>

getContrastRatio(rgb1, rgb2) ==
    ratioOf(calculateLuminance(rgb1), calculateLuminance(rgb2))

\* ratio >= a/b for 1 <= b <= 2, by quotient and remainder
RatioGeq(ratio, a, b) ==
    LET q == ratio[1] \div ratio[2]
        r == ratio[1] % ratio[2]
    IN  IF a - q * b <= 0 THEN TRUE
        ELSE IF a - q * b >= b THEN FALSE
        ELSE r * b >= (a - q * b) * ratio[2]

\* ratio >= (isLargeText ? 3.0 : 4.5)
meetsThreshold(ratio, isLargeText) ==
    IF isLargeText THEN RatioGeq(ratio, 3, 1) ELSE RatioGeq(ratio, 9, 2)

passesContrastCheck(rgb, textRgb, isLargeText) ==
    meetsThreshold(getContrastRatio(rgb, textRgb), isLargeText)

\* blackContrast >= 4.5 && whiteContrast >= 4.5 of a candidate's RGB
passesBothRgb(testRGB) ==
    /\ RatioGeq(getContrastRatio(testRGB, <<0, 0, 0>>), 9, 2)
    /\ RatioGeq(getContrastRatio(testRGB, <<255, 255, 255>>), 9, 2)

\* the test every candidate of every phase goes through
passesBothContrasts(testHSL) == passesBothRgb(hslToRgb(testHSL))

\* Variant of the phase-1 comparison that also replaces the best candidate on
\* a tie
phase1Closer_OrEqual(distance, minDistance) == LeqQ(distance, minDistance)

\* if (distance < minDistance) of phase 1
phase1Closer(distance, minDistance) == LessQ(distance, minDistance)

\* Phase 1: for (newL = 45; newL <= 65; newL++), hue and saturation fixed;
\* a passing candidate replaces the best one only when strictly closer.
RECURSIVE phase1(_, _, _)
phase1(o, newL, best) ==
    IF newL > 65 THEN best
    ELSE LET testHSL  == <<o[1], o[2], Num(newL)>>
             distance == AbsQ(SubQ(o[3], Num(newL)))
         IN  IF passesBothContrasts(testHSL) /\ phase1Closer(distance, best.minDistance)
             THEN phase1(o, newL + 1, [closestHSL |-> testHSL, minDistance |-> distance])
             ELSE phase1(o, newL + 1, best)

\* Phases 2 and 3 compare Math.sqrt of a sum of squares; the square root is
\* strictly increasing, so minDistance holds the sum itself there.  An outer
\* loop hands the result `next` of its inner loop to the next iteration, once
\* that result is known.
RECURSIVE phase2S(_, _, _, _)
phase2S(o, newL, newS, best) ==
    IF ~LeqQ(newS, MinQ(Num(100), AddQ(o[2], Num(20)))) THEN best
    ELSE LET testHSL  == <<o[1], newS, Num(newL)>>
             distance == AddQ(SqQ(SubQ(o[3], Num(newL))), SqQ(SubQ(o[2], newS)))
         IN  IF passesBothContrasts(testHSL) /\ LessQ(distance, best.minDistance)
             THEN phase2S(o, newL, AddQ(newS, Num(5)),
                          [closestHSL |-> testHSL, minDistance |-> distance])
             ELSE phase2S(o, newL, AddQ(newS, Num(5)), best)

RECURSIVE phase2(_, _, _)
RECURSIVE phase2Next(_, _, _, _)
phase2Next(o, newL, best, next) ==
    IF next = best THEN phase2(o, newL + 1, best) ELSE phase2(o, newL + 1, next)

phase2(o, newL, best) ==
    IF newL > 65 THEN best
    ELSE phase2Next(o, newL, best,
                    phase2S(o, newL, MaxQ(Num(0), SubQ(o[2], Num(20))), best))

\* (h + hueShift + 360) % 360 for h + hueShift + 360 >= 0
wrap360(v) == SubQ(v, Num(360 * FloorQ(DivQ(v, 360))))

shiftHue(h, hueShift) == wrap360(AddQ(h, Num(hueShift + 360)))

\* (h - newH) / 3, the hue term of a phase-3 distance
hueTerm(h, newH) == DivQ(SubQ(h, newH), 3)

RECURSIVE phase3S(_, _, _, _, _)
phase3S(o, newH, newL, newS, best) ==
    IF ~LeqQ(newS, MinQ(Num(100), AddQ(o[2], Num(30)))) THEN best
    ELSE LET testHSL  == <<newH, newS, Num(newL)>>
             distance == AddQ(AddQ(SqQ(hueTerm(o[1], newH)),
                                   SqQ(SubQ(o[3], Num(newL)))),
                              SqQ(DivQ(SubQ(o[2], newS), 2)))
         IN  IF passesBothContrasts(testHSL) /\ LessQ(distance, best.minDistance)
             THEN phase3S(o, newH, newL, AddQ(newS, Num(10)),
                          [closestHSL |-> testHSL, minDistance |-> distance])
             ELSE phase3S(o, newH, newL, AddQ(newS, Num(10)), best)

RECURSIVE phase3L(_, _, _, _)
RECURSIVE phase3LNext(_, _, _, _, _)
phase3LNext(o, newH, newL, best, next) ==
    IF next = best THEN phase3L(o, newH, newL + 2, best)
    ELSE phase3L(o, newH, newL + 2, next)

phase3L(o, newH, newL, best) ==
    IF newL > 65 THEN best
    ELSE phase3LNext(o, newH, newL, best,
                     phase3S(o, newH, newL, MaxQ(Num(0), SubQ(o[2], Num(30))), best))

RECURSIVE phase3(_, _, _)
RECURSIVE phase3Next(_, _, _, _)
phase3Next(o, hueShift, best, next) ==
    IF next = best THEN phase3(o, hueShift + 5, best)
    ELSE phase3(o, hueShift + 5, next)

phase3(o, hueShift, best) ==
    IF hueShift > 30 THEN best
    ELSE phase3Next(o, hueShift, best,
                    phase3L(o, shiftHue(o[1], hueShift), 45, best))

fallbackHSL == <<Num(195), Num(60), Num(55)>>

\* closestHSL = [...originalHSL], minDistance = Infinity
noMatch(o) == [closestHSL |-> o, minDistance |-> Infinity]

\* if (minDistance === Infinity) { phase 2 }
afterPhase1(o, best) ==
    IF best.minDistance = Infinity THEN phase2(o, 45, best) ELSE best

\* if (minDistance === Infinity) { phase 3 }
afterPhase2(o, best) ==
    IF best.minDistance = Infinity THEN phase3(o, -30, best) ELSE best

\* Variant of the search that runs every phase whatever the earlier ones found
searchAccessibleColor_AllPhases(o) ==
    phase3(o, -30, phase2(o, 45, phase1(o, 45, noMatch(o))))

\* Variant of the search that starts at phase 2
searchAccessibleColor_SkipPhase1(o) ==
    afterPhase2(o, afterPhase1(o, noMatch(o)))

\* The search of findAccessibleColor: the best candidate after the phases
\* that ran
searchAccessibleColor(o) ==
    afterPhase2(o, afterPhase1(o, phase1(o, 45, noMatch(o))))

\* if (minDistance === Infinity) return the fallback; return closestHSL
resultOf(found) ==
    IF found.minDistance = Infinity THEN fallbackHSL ELSE found.closestHSL

\* Variant of findAccessibleColor without the fallback
findAccessibleColor_NoFallback(o) == searchAccessibleColor(o).closestHSL

findAccessibleColor(o) == resultOf(searchAccessibleColor(o))

---------------------------------------------------------------------------
(* scale-generator.js                                                      *)

COLOR_LEVELS == <<100, 200, 300, 400, 500, 600, 700>>

\* a < b for two contrast ratios <<n, d>>, by continued fractions
RECURSIVE RatioLess(_, _)
RatioLess(a, b) ==
    LET qa == a[1] \div a[2]
        qb == b[1] \div b[2]
        ra == a[1] % a[2]
        rb == b[1] % b[2]
    IN  IF qa # qb THEN qa < qb
        ELSE IF rb = 0 THEN FALSE
        ELSE IF ra = 0 THEN TRUE
        ELSE RatioLess(<<b[2], rb>>, <<a[2], ra>>)

\* Variant of the record whose large-text flags use the 4.5 threshold and
\* whose normal-text flags use the 3.0 threshold
shadeOf_SwappedThresholds(level, hsl, hex, rgb, blackContrast, whiteContrast) ==
    [ level             |-> level,
      hsl               |-> hsl,
      hex               |-> hex,
      rgb               |-> rgb,
      blackContrast     |-> blackContrast,
      whiteContrast     |-> whiteContrast,
      blackPassesNormal |-> RatioGeq(blackContrast, 3, 1),
      blackPassesLarge  |-> RatioGeq(blackContrast, 9, 2),
      whitePassesNormal |-> RatioGeq(whiteContrast, 3, 1),
      whitePassesLarge  |-> RatioGeq(whiteContrast, 9, 2),
      preferWhiteText   |-> RatioLess(blackContrast, whiteContrast) ]

\* The record built for one shade (generateColorScale lines 18-47, and again
\* generateDarkModeScale lines 69-97)
shadeOf(level, hsl, hex, rgb, blackContrast, whiteContrast) ==
    [ level             |-> level,
      hsl               |-> hsl,
      hex               |-> hex,
      rgb               |-> rgb,
      blackContrast     |-> blackContrast,
      whiteContrast     |-> whiteContrast,
      blackPassesNormal |-> RatioGeq(blackContrast, 9, 2),
      blackPassesLarge  |-> RatioGeq(blackContrast, 3, 1),
      whitePassesNormal |-> RatioGeq(whiteContrast, 9, 2),
      whitePassesLarge  |-> RatioGeq(whiteContrast, 3, 1),
      preferWhiteText   |-> RatioLess(blackContrast, whiteContrast) ]

shadeOfRgb(level, hsl, hex, rgb) ==
    shadeOf(level, hsl, hex, rgb, getContrastRatio(rgb, <<0, 0, 0>>),
            getContrastRatio(rgb, <<255, 255, 255>>))

shadeRecord(level, hsl) == shadeOfRgb(level, hsl, hslToHex(hsl), hslToRgb(hsl))

\* Math.max(0, Math.min(100, x))
clamp100(x) == MaxQ(Num(0), MinQ(Num(100), x))

\* The interpolation factor of a level other than 400
levelFactor(level) ==
    IF level < 400 THEN Rat(400 - level, 300) ELSE Rat(level - 400, 300)

\* calculateHSL, neutral branch (saturation < 10)
neutralHSL(hsl400, level) ==
    LET h == hsl400[1]
        s == hsl400[2]
        l == hsl400[3]
        factor == levelFactor(level)
    IN  IF level < 400
        THEN << h,
                clamp100(MaxQ(Num(0), SubQ(s, MulQ(factor, s)))),
                clamp100(AddQ(l, MulQ(factor, SubQ(Num(95), l)))) >>
        ELSE << h,
                clamp100(s),
                clamp100(SubQ(l, MulQ(factor, SubQ(l, Num(28))))) >>

\* calculateHSL, chromatic branch
chromaticHSL(hsl400, level) ==
    LET h == hsl400[1]
        s == hsl400[2]
        l == hsl400[3]
        factor == levelFactor(level)
        l100 == MinQ(Num(94), AddQ(l, Num(44)))
        s100 == MaxQ(Num(0), SubQ(s, Num(1)))
        l700 == MaxQ(Num(24), SubQ(l, Num(26)))
        s700 == MinQ(Num(100), AddQ(s, Num(28)))
    IN  IF level < 400
        THEN << h,
                clamp100(SubQ(s, MulQ(factor, SubQ(s, s100)))),
                clamp100(SubQ(l, MulQ(factor, SubQ(l, l100)))) >>
        ELSE << h,
                clamp100(AddQ(s, MulQ(factor, SubQ(s700, s)))),
                clamp100(SubQ(l, MulQ(factor, SubQ(l, l700)))) >>

\* Variant of calculateHSL that rounds the base level to whole numbers
calculateHSL_Rounded400(hsl400, level) ==
    IF level = 400
    THEN << Num(FloorQ(hsl400[1])), Num(FloorQ(hsl400[2])), Num(FloorQ(hsl400[3])) >>
    ELSE IF LessQ(hsl400[2], Num(10)) THEN neutralHSL(hsl400, level)
    ELSE chromaticHSL(hsl400, level)

\* Variant of calculateHSL whose neutral shades are pure greys of hue 0
calculateHSL_GreyHue0(hsl400, level) ==
    IF level = 400 THEN hsl400
    ELSE IF LessQ(hsl400[2], Num(10))
         THEN << Num(0), neutralHSL(hsl400, level)[2], neutralHSL(hsl400, level)[3] >>
    ELSE chromaticHSL(hsl400, level)

\* Variant of calculateHSL whose neutral branch also takes saturation 10
calculateHSL_NeutralAt10(hsl400, level) ==
    IF level = 400 THEN hsl400
    ELSE IF LeqQ(hsl400[2], Num(10)) THEN neutralHSL(hsl400, level)
    ELSE chromaticHSL(hsl400, level)

calculateHSL(hsl400, level) ==
    LET isNeutral == LessQ(hsl400[2], Num(10))
    IN  IF level = 400 THEN hsl400
        ELSE IF isNeutral THEN neutralHSL(hsl400, level)
        ELSE chromaticHSL(hsl400, level)

\* Variant of generateColorScale that stops one level short
generateColorScale_SixLevels(baseHSL) ==
    [ i \in 1..(Len(COLOR_LEVELS) - 1) |->
        shadeRecord(COLOR_LEVELS[i], calculateHSL(baseHSL, COLOR_LEVELS[i])) ]

generateColorScale(baseHSL) ==
    [ i \in 1..Len(COLOR_LEVELS) |->
        shadeRecord(COLOR_LEVELS[i], calculateHSL(baseHSL, COLOR_LEVELS[i])) ]

---------------------------------------------------------------------------
(* dark-mode-generator.js                                                  *)

\* scale.find(c => c.level === level): the first such record, or undefined
findLevel(scale, level) ==
    IF \E i \in 1..Len(scale) : scale[i].level = level
    THEN scale[CHOOSE i \in 1..Len(scale) :
                   /\ scale[i].level = level
                   /\ \A j \in 1..(i - 1) : scale[j].level # level]
    ELSE undefined

\* Variant of levelMap that maps every level to itself
levelMap_Identity == [ level \in {100, 200, 300, 400, 500, 600, 700} |-> level ]

levelMap ==
    (100 :> 700) @@ (200 :> 600) @@ (300 :> 500) @@ (400 :> 400) @@
    (500 :> 300) @@ (600 :> 200) @@ (700 :> 100)

adjustForDarkMode(hsl) ==
    LET newS == MinQ(MulQ(hsl[2], <<11, 10>>), Num(100))
    IN  <<hsl[1], newS, hsl[3]>>

\* What a call that reads a property of undefined ends in
TypeError == <<"TypeError">>

\* Variant of the basis choice that takes a supplied accessible scale first
darkModeBasis_PreferAccessible(light, accessible) ==
    LET base400 == findLevel(light, 400)
        isOriginalAccessible == base400.blackPassesNormal /\ base400.whitePassesNormal
    IN  IF accessible # null THEN accessible
        ELSE IF isOriginalAccessible THEN light
        ELSE generateColorScale(findAccessibleColor(base400.hsl))

\* lines 16-32: the scale that is reversed
darkModeBasis(light, accessible) ==
    LET base400 == findLevel(light, 400)
        isOriginalAccessible == base400.blackPassesNormal /\ base400.whitePassesNormal
        baseScale == IF isOriginalAccessible THEN light ELSE accessible
    IN  IF ~isOriginalAccessible /\ baseScale = null
        THEN generateColorScale(findAccessibleColor(base400.hsl))
        ELSE baseScale

\* Variant of darkModeHSL that keeps the light scale's own base at level 400
darkModeHSL_Own400(color, baseScale) ==
    IF color.level = 400
    THEN color.hsl
    ELSE LET reversedColor == findLevel(baseScale, levelMap[color.level])
         IN  IF reversedColor = undefined
             THEN color.hsl
             ELSE adjustForDarkMode(reversedColor.hsl)

\* lines 46-67: the HSL of the dark-mode record that replaces `color`
darkModeHSL(color, baseScale) ==
    IF color.level = 400
    THEN LET baseColor == findLevel(baseScale, 400)
         IN  IF baseColor = undefined THEN TypeError ELSE baseColor.hsl
    ELSE LET reversedColor == findLevel(baseScale, levelMap[color.level])
         IN  IF reversedColor = undefined
             THEN color.hsl
             ELSE adjustForDarkMode(reversedColor.hsl)

\* lines 46-98: lightModeScale.map(...); an exception in the callback ends
\* the map and the call
reverseScale(light, baseScale) ==
    IF \E i \in 1..Len(light) : darkModeHSL(light[i], baseScale) = TypeError
    THEN TypeError
    ELSE [ i \in 1..Len(light) |->
             shadeRecord(light[i].level, darkModeHSL(light[i], baseScale)) ]

generateDarkModeScale(light, accessible) ==
    reverseScale(light, darkModeBasis(light, accessible))

---------------------------------------------------------------------------
(* Color text that is not a hex colour                                     *)

\* parseInt of a substring without hex digits
NaN == <<0, 0>>

\* rgbToHSL of channels that are NaN: max is NaN, no comparison holds, no
\* case of the switch matches
NaNHSL == <<NaN, NaN, NaN>>

\* hexToHSL of the text handed to updateColorScales.  Text without any digit
\* ("#" alone, from an empty field) gives NaN channels; the other texts of
\* the model are hex colours.
hexToHSLOfText(hex) ==
    IF stripHash(hex) = <<>> THEN NaNHSL ELSE hexToHSL(hex)

\* The record of a shade whose hue, saturation and lightness are NaN: the
\* channels and both contrasts are NaN, NaN.toString(16) is "NaN", and every
\* comparison with NaN is false
NaNShade(level) ==
    [ level             |-> level,
      hsl               |-> NaNHSL,
      hex               |-> <<"#", "N", "a", "N", "N", "a", "N", "N", "a", "N">>,
      rgb               |-> <<NaN, NaN, NaN>>,
      blackContrast     |-> NaN,
      whiteContrast     |-> NaN,
      blackPassesNormal |-> FALSE,
      blackPassesLarge  |-> FALSE,
      whitePassesNormal |-> FALSE,
      whitePassesLarge  |-> FALSE,
      preferWhiteText   |-> FALSE ]

\* generateColorScale, NaN included: calculateHSL of NaN is NaN at every level
scaleOfHSL(hsl) ==
    IF hsl = NaNHSL
    THEN [ i \in 1..Len(COLOR_LEVELS) |-> NaNShade(COLOR_LEVELS[i]) ]
    ELSE generateColorScale(hsl)

\* findAccessibleColor, NaN included: no candidate built from NaN passes, so
\* the search falls through to the fixed colour
accessibleOfHSL(hsl) ==
    IF hsl = NaNHSL THEN fallbackHSL ELSE findAccessibleColor(hsl)

---------------------------------------------------------------------------
(* color-names-api.js                                                      *)

\* Variant of getGenericColorName whose last bucket ends before 360
getGenericColorName_OpenAt360(hsl) ==
    IF hsl = NaNHSL THEN <<"Custom">>
    ELSE IF LessQ(hsl[2], Num(10)) THEN <<"Neutral">>
    ELSE IF LessQ(hsl[1], Num(0)) THEN <<"Custom">>
    ELSE IF LessQ(hsl[1], Num(15)) THEN <<"Red">>
    ELSE IF LessQ(hsl[1], Num(45)) THEN <<"Orange">>
    ELSE IF LessQ(hsl[1], Num(65)) THEN <<"Yellow">>
    ELSE IF LessQ(hsl[1], Num(80)) THEN <<"Lime">>
    ELSE IF LessQ(hsl[1], Num(150)) THEN <<"Green">>
    ELSE IF LessQ(hsl[1], Num(190)) THEN <<"Teal">>
    ELSE IF LessQ(hsl[1], Num(220)) THEN <<"Cyan">>
    ELSE IF LessQ(hsl[1], Num(255)) THEN <<"Blue">>
    ELSE IF LessQ(hsl[1], Num(280)) THEN <<"Indigo">>
    ELSE IF LessQ(hsl[1], Num(320)) THEN <<"Purple">>
    ELSE IF LessQ(hsl[1], Num(340)) THEN <<"Magenta">>
    ELSE IF LessQ(hsl[1], Num(360)) THEN <<"Pink">>
    ELSE <<"Custom">>

\* A colour name is a sequence of strings: <<"Red">>, or what the naming
\* service answers for the digits it is asked about
getGenericColorName(hsl) ==
    IF hsl = NaNHSL THEN <<"Custom">>
    ELSE IF LessQ(hsl[2], Num(10)) THEN <<"Neutral">>
    ELSE IF LessQ(hsl[1], Num(0)) THEN <<"Custom">>
    ELSE IF LessQ(hsl[1], Num(15)) THEN <<"Red">>
    ELSE IF LessQ(hsl[1], Num(45)) THEN <<"Orange">>
    ELSE IF LessQ(hsl[1], Num(65)) THEN <<"Yellow">>
    ELSE IF LessQ(hsl[1], Num(80)) THEN <<"Lime">>
    ELSE IF LessQ(hsl[1], Num(150)) THEN <<"Green">>
    ELSE IF LessQ(hsl[1], Num(190)) THEN <<"Teal">>
    ELSE IF LessQ(hsl[1], Num(220)) THEN <<"Cyan">>
    ELSE IF LessQ(hsl[1], Num(255)) THEN <<"Blue">>
    ELSE IF LessQ(hsl[1], Num(280)) THEN <<"Indigo">>
    ELSE IF LessQ(hsl[1], Num(320)) THEN <<"Purple">>
    ELSE IF LessQ(hsl[1], Num(340)) THEN <<"Magenta">>
    ELSE IF LeqQ(hsl[1], Num(360)) THEN <<"Pink">>
    ELSE <<"Custom">>

\* data.colors[0].name: the answer of the service for the digits in the URL
apiName(normalizedHex) == <<"name of">> \o normalizedHex

\* the fallback of getColorName, lines 35 and 40
genericNameOf(normalizedHex) ==
    getGenericColorName(hexToHSLOfText(<<"#">> \o normalizedHex))

\* Variant of the cache key that keeps the letter case
cacheKey_KeepCase(hexColor) == stripHash(hexColor)

\* getCachedColorName line 56: hexColor.replace(/^#/, '').toLowerCase()
cacheKey(hexColor) == toLowerCase(stripHash(hexColor))

\* colorNameCache.set(key, name)
cacheSet(cache, key, name) ==
    [ k \in DOMAIN cache \cup {key} |-> IF k = key THEN name ELSE cache[k] ]

\* How a fetch settles: it rejects, or resolves with response.ok false or true
FetchOutcomes == {"rejected", "notOk", "ok"}

\* How response.json() settles: without colours or with a named colour
JsonOutcomes == {"empty", "named"}

\* What getColorName resolves with once the lookup has settled as `outcome`
settledName(normalizedHex, outcome) ==
    IF outcome = "named" THEN apiName(normalizedHex) ELSE genericNameOf(normalizedHex)

---------------------------------------------------------------------------
(* The accessible-colour search applied to every colour of a grid          *)

MaxHueIndex == 6
MaxSatIndex == 3
MaxLightIndex == 2
MaxFracIndex == 1

\* The colour at a grid index: hues on both sides of the 0/360 seam,
\* saturations on both sides of the neutral threshold, a lightness l; whole
\* numbers (f = 0) and fractions, as hexToHSL produces.
ColorAt(h, s, l, f) ==
    << Rat(2 * ((h * 65 + 355) % 360) + f, 2),
       MinQ(Num(100), Rat(3 * ((s * 35) % 101) + f, 3)),
       MinQ(Num(100), Rat(3 * l + f, 3)) >>

\* Lightnesses inside and outside 45..65
ColorGrid ==
    { ColorAt(h, s, (l * 47 + 50) % 121, f) : h \in 0..MaxHueIndex, s \in 0..MaxSatIndex,
                            l \in 0..MaxLightIndex, f \in 0..MaxFracIndex }

SearchInit ==
    /\ pc = "input"
    /\ originalHSL \in ColorGrid
    /\ accessibleHSL = null
    /\ inputHSL = null
    /\ colorScale = null
    /\ lightModeScale = null
    /\ accessibleScale = null
    /\ darkBasis = null
    /\ darkModeScale = null
    /\ ExtraIdle

FindAccessibleColor ==
    /\ pc = "input"
    /\ accessibleHSL' = findAccessibleColor(originalHSL)
    /\ pc' = "found"
    /\ UNCHANGED <<originalHSL, inputHSL, colorScale,
                   lightModeScale, accessibleScale, darkBasis, darkModeScale>>
    /\ UNCHANGED extraVars

\* findAccessibleColor applied to the colour it returned
FindAccessibleColorAgain ==
    /\ pc = "found"
    /\ repeatedHSL' = findAccessibleColor(accessibleHSL)
    /\ pc' = "again"
    /\ UNCHANGED coreVars
    /\ UNCHANGED <<contrastVars, hexVars, domVars, nameVars, genericName, modeVars>>

SearchNext == FindAccessibleColor \/ FindAccessibleColorAgain

SearchSpec == SearchInit /\ [][SearchNext]_vars

---------------------------------------------------------------------------
(* The search applied to colours whose lightness lies on or halfway        *)
(* between the whole lightnesses of phase 1                                *)

MaxTieIndex == 5
MaxHalfStep == 40

\* hue and saturation pairs for which several lightnesses of 45..65 pass
TiePairs == << <<0, 80>>, <<285, 95>>, <<215, 100>>, <<0, 70>>,
               <<280, 100>>, <<320, 60>>, <<0, 75>>, <<0, 90>> >>

\* lightness 45 + k/2, capped at 100
TieColorAt(i, k) ==
    << Num(TiePairs[(i % Len(TiePairs)) + 1][1]),
       Num(TiePairs[(i % Len(TiePairs)) + 1][2]),
       MinQ(Num(100), Rat(90 + k, 2)) >>

TieGrid == { TieColorAt(i, k) : i \in 0..MaxTieIndex, k \in 0..MaxHalfStep }

NearestInit ==
    /\ pc = "input"
    /\ originalHSL \in TieGrid
    /\ accessibleHSL = null
    /\ inputHSL = null
    /\ colorScale = null
    /\ lightModeScale = null
    /\ accessibleScale = null
    /\ darkBasis = null
    /\ darkModeScale = null
    /\ ExtraIdle

NearestSpec == NearestInit /\ [][SearchNext]_vars

---------------------------------------------------------------------------
(* The scale generator applied to every colour of the grid                 *)

ScaleInit ==
    /\ pc = "input"
    /\ inputHSL \in ColorGrid
    /\ colorScale = null
    /\ originalHSL = null
    /\ accessibleHSL = null
    /\ lightModeScale = null
    /\ accessibleScale = null
    /\ darkBasis = null
    /\ darkModeScale = null
    /\ ExtraIdle

GenerateColorScale ==
    /\ pc = "input"
    /\ colorScale' = generateColorScale(inputHSL)
    /\ pc' = "scale"
    /\ UNCHANGED <<originalHSL, accessibleHSL, inputHSL,
                   lightModeScale, accessibleScale, darkBasis, darkModeScale>>
    /\ UNCHANGED extraVars

ScaleNext == GenerateColorScale

ScaleSpec == ScaleInit /\ [][ScaleNext]_vars

---------------------------------------------------------------------------
(* The scale generator applied to bases at the edges of its branches       *)

MaxEdgeSatIndex == 7
MaxEdgeLightIndex == 7

\* saturations at and around the neutral threshold 10 and the caps of the
\* chromatic endpoints (s - 1 >= 0, s + 28 <= 100)
EdgeSaturations == << Num(10), Rat(29, 3), Num(0), Num(100), Num(72), Rat(1, 2),
                      Rat(31, 3), Num(73), Num(9), Num(50) >>

\* lightnesses at and around the caps of the endpoints (l + 44 <= 94,
\* l - 26 >= 24) and the neutral targets 95 and 28
EdgeLightnesses == << Num(50), Num(0), Num(100), Num(95), Num(28), Rat(151, 3),
                      Num(51), Num(24), Num(97), Num(12) >>

EdgeColorAt(s, l) ==
    << Num(210),
       EdgeSaturations[(s % Len(EdgeSaturations)) + 1],
       EdgeLightnesses[(l % Len(EdgeLightnesses)) + 1] >>

EdgeGrid == { EdgeColorAt(s, l) : s \in 0..MaxEdgeSatIndex, l \in 0..MaxEdgeLightIndex }

EdgeInit ==
    /\ pc = "input"
    /\ inputHSL \in EdgeGrid
    /\ colorScale = null
    /\ originalHSL = null
    /\ accessibleHSL = null
    /\ lightModeScale = null
    /\ accessibleScale = null
    /\ darkBasis = null
    /\ darkModeScale = null
    /\ ExtraIdle

EdgeSpec == EdgeInit /\ [][ScaleNext]_vars

---------------------------------------------------------------------------
(* The generic colour name of colours at the edges of the hue buckets      *)

MaxHueEdgeIndex == 12
MaxNameSatIndex == 3

\* the bounds of the hue buckets, and a hue inside a bucket
HueEdges == <<0, 15, 45, 65, 80, 150, 190, 220, 255, 280, 320, 340, 360, 100>>

NameSaturations == << Num(10), Rat(29, 3), Num(100), Num(0), Num(55) >>

\* the hue at a bound (d = 0) or half a degree off it (d = -1, 1), kept in
\* [0, 360] as hexToHSL produces it
NamedColorAt(e, d, s) ==
    << MaxQ(Num(0), MinQ(Num(360), Rat(2 * HueEdges[(e % Len(HueEdges)) + 1] + d, 2))),
       NameSaturations[(s % Len(NameSaturations)) + 1],
       Num(50) >>

NameGrid ==
    { NamedColorAt(e, d, s) : e \in 0..MaxHueEdgeIndex, d \in {-1, 0, 1},
                              s \in 0..MaxNameSatIndex }

GenericInit ==
    /\ pc = "input"
    /\ inputHSL \in NameGrid
    /\ colorScale = null
    /\ originalHSL = null
    /\ accessibleHSL = null
    /\ lightModeScale = null
    /\ accessibleScale = null
    /\ darkBasis = null
    /\ darkModeScale = null
    /\ ExtraIdle

GetGenericColorName ==
    /\ pc = "input"
    /\ genericName' = getGenericColorName(inputHSL)
    /\ pc' = "named"
    /\ UNCHANGED coreVars
    /\ UNCHANGED <<contrastVars, hexVars, domVars, nameVars, repeatedHSL, modeVars>>

GenericNext == GetGenericColorName

GenericSpec == GenericInit /\ [][GenericNext]_vars

---------------------------------------------------------------------------
(* The dark-mode transform applied to the scale of every colour of the     *)
(* grid, with each kind of second argument                                 *)

\* The second argument: omitted; the accessible scale updateColorScales
\* passes; a scale unrelated to the light one.
AccessibleScaleArgs(light) ==
    { null,
      generateColorScale(findAccessibleColor(findLevel(light, 400).hsl)),
      generateColorScale(fallbackHSL) }

MaxDarkHueIndex == 1
MaxDarkLightIndex == 1

\* Every other hue of the grid; lightnesses that start at 46, where a grey
\* passes AA against black and against white
DarkGrid ==
    { ColorAt(2 * h + 1, s, (l * 51 + 46) % 101, f) : h \in 0..MaxDarkHueIndex, s \in 0..MaxSatIndex,
                                    l \in 0..MaxDarkLightIndex, f \in 0..MaxFracIndex }

DarkInit ==
    /\ pc = "input"
    /\ lightModeScale \in { generateColorScale(b) : b \in DarkGrid }
    /\ accessibleScale = null
    /\ darkBasis = null
    /\ darkModeScale = null
    /\ originalHSL = null
    /\ accessibleHSL = null
    /\ inputHSL = null
    /\ colorScale = null
    /\ ExtraIdle

GenerateDarkModeScale ==
    /\ pc = "input"
    /\ \E accessible \in AccessibleScaleArgs(lightModeScale) :
         /\ accessibleScale' = accessible
         /\ darkBasis' = darkModeBasis(lightModeScale, accessible)
         /\ darkModeScale' = reverseScale(lightModeScale, darkBasis')
    /\ pc' = "dark"
    /\ UNCHANGED <<originalHSL, accessibleHSL, inputHSL, colorScale, lightModeScale>>
    /\ UNCHANGED extraVars

DarkNext == GenerateDarkModeScale

DarkSpec == DarkInit /\ [][DarkNext]_vars

---------------------------------------------------------------------------
(* The dark-mode transform with an accessible scale that lacks a level     *)

MaxMissingColorIndex == 14
MaxMissingIndex == 6

MissingColorAt(i) == ColorAt(2 * i + 1, i % 4, (i * 51 + 46) % 101, i % 2)

\* the scale without its k-th record
without(scale, k) == SubSeq(scale, 1, k - 1) \o SubSeq(scale, k + 1, Len(scale))

\* the accessible scale of the caller, one record removed
truncatedScales(accessible) ==
    { without(accessible, (i % Len(accessible)) + 1) : i \in 0..MaxMissingIndex }

MissingInit ==
    /\ pc = "input"
    /\ lightModeScale \in { generateColorScale(MissingColorAt(i)) : i \in 0..MaxMissingColorIndex }
    /\ accessibleScale = null
    /\ darkBasis = null
    /\ darkModeScale = null
    /\ originalHSL = null
    /\ accessibleHSL = null
    /\ inputHSL = null
    /\ colorScale = null
    /\ ExtraIdle

GenerateDarkModeScaleWithoutLevel ==
    /\ pc = "input"
    /\ \E accessible \in truncatedScales(generateColorScale(
                               findAccessibleColor(findLevel(lightModeScale, 400).hsl))) :
         /\ accessibleScale' = accessible
         /\ darkBasis' = darkModeBasis(lightModeScale, accessible)
         /\ darkModeScale' = reverseScale(lightModeScale, darkBasis')
    /\ pc' = "dark"
    /\ UNCHANGED <<originalHSL, accessibleHSL, inputHSL, colorScale, lightModeScale>>
    /\ UNCHANGED extraVars

MissingNext == GenerateDarkModeScaleWithoutLevel

MissingSpec == MissingInit /\ [][MissingNext]_vars

---------------------------------------------------------------------------
(* A colour typed as text, expanded into its scale                         *)

MaxPairIndex == 5

\* The digits of the web-safe channel values 00, 33, 66, 99, cc, ff, whose
\* hue, saturation and lightness have small denominators; the letters come
\* in both cases
WebDigits == <<"0", "C", "6", "f", "9", "3", "c", "F">>

\* Two equal hex digits: 00, CC, 66, ff, 99, 33, cc, FF, ...
PairAt(i) == <<WebDigits[(i % 8) + 1], WebDigits[(i % 8) + 1]>>

\* Six hex digits, typed with or without the leading "#"
HexInputs ==
    { prefix \o PairAt(r) \o PairAt(g) \o PairAt(b) :
        prefix \in {<<>>, <<"#">>},
        r \in 0..MaxPairIndex, g \in 0..MaxPairIndex, b \in 0..MaxPairIndex }

HexInit ==
    /\ pc = "input"
    /\ hexInput \in HexInputs
    /\ CoreIdle
    /\ ContrastIdle
    /\ DomIdle
    /\ NameIdle
    /\ ResultIdle
    /\ ModeIdle

\* the text-input path to the scale: the field's value trimmed and given its
\* "#", validated, converted and expanded
ScaleOfHex ==
    /\ pc = "input"
    /\ isValidHex(normalizeHex(hexInput))
    /\ inputHSL' = hexToHSL(normalizeHex(hexInput))
    /\ colorScale' = generateColorScale(inputHSL')
    /\ pc' = "hexscale"
    /\ UNCHANGED <<originalHSL, accessibleHSL, lightModeScale, accessibleScale,
                   darkBasis, darkModeScale>>
    /\ UNCHANGED <<hexInput, contrastVars, domVars, nameVars, resultVars, modeVars>>

HexNext == ScaleOfHex

HexSpec == HexInit /\ [][HexNext]_vars

---------------------------------------------------------------------------
(* getContrastRatio applied to every pair of colours of a grid             *)

MaxChannelIndex == 3

\* Channel values 0, 85, 170, 255, then values in between
ChannelAt(i) == (i * 85) % 256

RgbGrid ==
    { <<ChannelAt(r), ChannelAt(g), ChannelAt(b)>> :
        r \in 0..MaxChannelIndex, g \in 0..MaxChannelIndex, b \in 0..MaxChannelIndex }

ContrastInit ==
    /\ pc = "input"
    /\ colorA \in RgbGrid
    /\ colorB \in RgbGrid
    /\ ratioAB = null
    /\ ratioBA = null
    /\ CoreIdle
    /\ HexIdle
    /\ DomIdle
    /\ NameIdle
    /\ ResultIdle
    /\ ModeIdle

GetContrastRatio ==
    /\ pc = "input"
    /\ ratioAB' = getContrastRatio(colorA, colorB)
    /\ ratioBA' = getContrastRatio(colorB, colorA)
    /\ pc' = "ratio"
    /\ UNCHANGED <<colorA, colorB, coreVars, hexVars, domVars, nameVars, resultVars, modeVars>>

ContrastNext == GetContrastRatio

ContrastSpec == ContrastInit /\ [][ContrastNext]_vars

---------------------------------------------------------------------------
(* getCachedColorName called with several spellings of two colours         *)

MaxLookups == 2

\* the same six digits in capitals, in lower case and mixed, with and
\* without "#", and a second colour
NameArgs ==
    { <<"#", "F", "F", "C", "C", "0", "0">>,
      <<"#", "f", "f", "c", "c", "0", "0">>,
      <<"F", "F", "c", "c", "0", "0">>,
      <<"f", "f", "c", "c", "0", "0">>,
      <<"#", "7", "5", "7", "5", "7", "5">>,
      <<"7", "5", "7", "5", "7", "5">> }

\* a getCachedColorName call that waits for getColorName
lookupCall(hexColor) ==
    [ hexColor |-> hexColor,
      stage    |-> "fetch",
      fetched  |-> TRUE,
      outcome  |-> "pending",
      name     |-> <<>> ]

\* a getCachedColorName call answered from the cache
answeredCall(hexColor, name) ==
    [ hexColor |-> hexColor,
      stage    |-> "done",
      fetched  |-> FALSE,
      outcome  |-> "cached",
      name     |-> name ]

NameInit ==
    /\ pc = "names"
    /\ colorNameCache = [ key \in {} |-> <<>> ]
    /\ calls = <<>>
    /\ CoreIdle
    /\ ContrastIdle
    /\ HexIdle
    /\ DomIdle
    /\ ResultIdle
    /\ ModeIdle

\* getCachedColorName(hexColor) up to its return or its await
GetCachedColorName(hexColor) ==
    /\ Len(calls) < MaxLookups
    /\ IF cacheKey(hexColor) \in DOMAIN colorNameCache
       THEN calls' = Append(calls,
                answeredCall(hexColor, colorNameCache[cacheKey(hexColor)]))
       ELSE calls' = Append(calls, lookupCall(hexColor))
    /\ UNCHANGED <<pc, colorNameCache, coreVars, contrastVars, hexVars, domVars, resultVars, modeVars>>

\* getColorName has its name: getCachedColorName stores and returns it
LookupReturns(i, outcome, name) ==
    /\ colorNameCache' = cacheSet(colorNameCache, cacheKey(calls[i].hexColor), name)
    /\ calls' = [calls EXCEPT ![i].stage = "done",
                              ![i].outcome = outcome,
                              ![i].name = name]

\* The fetch of lookup i settles
LookupFetchSettles(i, outcome) ==
    /\ calls[i].stage = "fetch"
    /\ IF outcome = "ok"
       THEN /\ calls' = [calls EXCEPT ![i].stage = "json"]
            /\ UNCHANGED colorNameCache
       ELSE LookupReturns(i, outcome, settledName(cacheKey(calls[i].hexColor), outcome))
    /\ UNCHANGED <<pc, coreVars, contrastVars, hexVars, domVars, resultVars, modeVars>>

\* response.json() of lookup i settles
LookupJsonSettles(i, outcome) ==
    /\ calls[i].stage = "json"
    /\ LookupReturns(i, outcome, settledName(cacheKey(calls[i].hexColor), outcome))
    /\ UNCHANGED <<pc, coreVars, contrastVars, hexVars, domVars, resultVars, modeVars>>

NameNext ==
    \/ \E hexColor \in NameArgs : GetCachedColorName(hexColor)
    \/ \E i \in 1..Len(calls), outcome \in FetchOutcomes : LookupFetchSettles(i, outcome)
    \/ \E i \in 1..Len(calls), outcome \in JsonOutcomes : LookupJsonSettles(i, outcome)

NameSpec == NameInit /\ [][NameNext]_vars

---------------------------------------------------------------------------
(* The page: main.js and ui-controller.js                                  *)

MaxCalls == 3

\* Texts of the colour field: a grey that passes AA without its "#", a
\* yellow in capital letters, and nothing
GreyText == <<"7", "5", "7", "5", "7", "5">>
YellowText == <<"#", "F", "F", "C", "C", "0", "0">>
EmptyText == <<>>

FieldTexts == {GreyText, YellowText, EmptyText}

\* Colours chosen in the colour picker, which reports "#rrggbb" in lower case
PickerColors == { <<"#", "7", "5", "7", "5", "7", "5">>,
                  <<"#", "f", "f", "c", "c", "0", "0">> }

\* what both handlers and main.js do to the field's text: trim, then "#"
\* in front; handleColorInput leaves an empty text empty
withHash(text) == addHash(trim(text))

inputColor(text) == IF trim(text) = <<>> THEN <<>> ELSE withHash(text)

\* the value an <input type="color"> takes when it is assigned `color`
pickerValueOf(color) ==
    IF isValidHex(color) /\ Len(color) = 7
    THEN toLowerCase(color)
    ELSE <<"#", "0", "0", "0", "0", "0", "0">>

\* Variant of the accessible scale that is computed for every colour
accessibleFor_Always(hsl400, isAccessible) ==
    scaleOfHSL(accessibleOfHSL(hsl400))

\* updateColorScales lines 199-204
accessibleFor(hsl400, isAccessible) ==
    IF isAccessible THEN null ELSE scaleOfHSL(accessibleOfHSL(hsl400))

scalesWith(hexColor, light, isAccessible, accessible) ==
    [ hexColor    |-> hexColor,
      light       |-> light,
      isAccessible |-> isAccessible,
      accessible  |-> accessible,
      dark        |-> generateDarkModeScale(light, accessible) ]

scalesFrom(hexColor, hsl400, light, isAccessible) ==
    scalesWith(hexColor, light, isAccessible, accessibleFor(hsl400, isAccessible))

scalesOfLight(hexColor, hsl400, light) ==
    scalesFrom(hexColor, hsl400, light,
               findLevel(light, 400).blackPassesNormal
                   /\ findLevel(light, 400).whitePassesNormal)

scalesOfHSL(hexColor, hsl400) == scalesOfLight(hexColor, hsl400, scaleOfHSL(hsl400))

\* updateColorScales lines 186-207, the part before the await: what it
\* stores in lightModeScale, accessibleScale and darkModeScale, and its local
\* isAccessible
computeScales(hexColor) == scalesOfHSL(hexColor, hexToHSLOfText(hexColor))

\* every text that can be handed to updateColorScales
CallColors == { withHash(text) : text \in FieldTexts } \cup PickerColors

\* computeScales of every such text
ScaleTable == [ hexColor \in CallColors |-> computeScales(hexColor) ]

\* generateDarkModeScale(accessibleScale, null) of every accessible scale
\* that updateColorScales stores
AlternativeDarkTable ==
    [ hexColor \in { c \in CallColors : ScaleTable[c].accessible # null } |->
        generateDarkModeScale(ScaleTable[hexColor].accessible, null) ]

accessibleDarkMode(accessible) ==
    AlternativeDarkTable[CHOOSE c \in DOMAIN AlternativeDarkTable :
                             ScaleTable[c].accessible = accessible]

\* updateDisplayedColorScale: the scale that is rendered in a mode
displayedScale(dark, lightScale, darkScale) == IF dark THEN darkScale ELSE lightScale

\* updateAlternativeColorScale: what the alternative container shows after it
alternativeShown(dark, accessible, shown) ==
    IF accessible = null THEN shown
    ELSE IF dark THEN accessibleDarkMode(accessible)
    ELSE accessible

\* A call of updateColorScales that has reached its await and waits for
\* the fetch of its name lookup
awaitingCall(hexColor) ==
    [ hexColor     |-> hexColor,
      isAccessible |-> ScaleTable[hexColor].isAccessible,
      stage        |-> "fetch",
      fetched      |-> TRUE,
      outcome      |-> "pending",
      name         |-> <<>> ]

\* A call that found its name in the cache
cachedCall(hexColor, name, stage) ==
    [ hexColor     |-> hexColor,
      isAccessible |-> ScaleTable[hexColor].isAccessible,
      stage        |-> stage,
      fetched      |-> FALSE,
      outcome      |-> "cached",
      name         |-> name ]

\* The state of a page before DOMContentLoaded: the module's initial state,
\* and a colour field that holds its default or a restored text
UiInit ==
    /\ pc = "loading"
    /\ hexInput \in FieldTexts
    /\ colorPickerValue = <<"#", "0", "0", "0", "0", "0", "0">>
    /\ colorPreview = <<>>
    /\ errorDisplay = ""
    /\ currentColorName = <<>>
    /\ statusText = ""
    /\ alternativeDisplay = ""
    /\ renderedScale = <<>>
    /\ renderedAlternative = <<>>
    /\ cssOutput = <<>>
    /\ colorNameCache = [ key \in {} |-> <<>> ]
    /\ calls = <<>>
    /\ lightModeScale = <<>>
    /\ accessibleScale = null
    /\ darkModeScale = <<>>
    /\ originalHSL = null
    /\ accessibleHSL = null
    /\ inputHSL = null
    /\ colorScale = null
    /\ darkBasis = null
    /\ ContrastIdle
    /\ ResultIdle
    /\ isDarkModeActive = FALSE

\* the part of updateColorScales(hexColor) before its await
StoreScales(hexColor) ==
    /\ lightModeScale' = ScaleTable[hexColor].light
    /\ accessibleScale' = ScaleTable[hexColor].accessible
    /\ darkModeScale' = ScaleTable[hexColor].dark

\* a step that calls nothing of the scale generators
KeepScales == UNCHANGED <<lightModeScale, accessibleScale, darkModeScale>>

\* updateColorScales lines 220-250, run by `call` once its name is known;
\* accessibleScale.find throws when accessibleScale is null, after the
\* section has been shown and before anything else is written
Resume(call, name) ==
    /\ currentColorName' = name
    /\ statusText' = IF call.isAccessible THEN "Accessible" ELSE "Not Accessible"
    /\ renderedScale' = displayedScale(isDarkModeActive, lightModeScale', darkModeScale')
    /\ alternativeDisplay' = IF call.isAccessible THEN "none" ELSE "block"
    /\ renderedAlternative' =
          IF ~call.isAccessible
          THEN alternativeShown(isDarkModeActive, accessibleScale', renderedAlternative)
          ELSE renderedAlternative
    /\ cssOutput' =
          IF ~call.isAccessible /\ accessibleScale' = null
          THEN cssOutput
          ELSE <<lightModeScale', darkModeScale', name>>

\* how a call that resumes now ends: with the TypeError or normally
endStage(call, accessible) ==
    IF ~call.isAccessible /\ accessible = null THEN "threw" ELSE "done"

KeepDisplay ==
    UNCHANGED <<currentColorName, statusText, alternativeDisplay, renderedScale,
                renderedAlternative, cssOutput>>

\* DOMContentLoaded: initUI ends with handleColorInput(), which validates
\* the field's text; main.js then hands the text to updateColorScales with
\* a "#" in front, whatever it is.  Both calls reach their await with an
\* empty cache.
PageLoad ==
    /\ pc = "loading"
    /\ pc' = "ready"
    /\ IF isValidHex(inputColor(hexInput))
       THEN /\ colorPreview' = inputColor(hexInput)
            /\ colorPickerValue' = pickerValueOf(inputColor(hexInput))
            /\ errorDisplay' = "none"
            /\ calls' = <<awaitingCall(inputColor(hexInput)),
                          awaitingCall(withHash(hexInput))>>
       ELSE /\ colorPreview' = <<"#", "f", "f", "f", "f", "f", "f">>
            /\ errorDisplay' = "block"
            /\ calls' = <<awaitingCall(withHash(hexInput))>>
            /\ UNCHANGED colorPickerValue
    /\ StoreScales(withHash(hexInput))
    /\ KeepDisplay
    /\ UNCHANGED <<hexInput, colorNameCache>>
    /\ UNCHANGED <<originalHSL, accessibleHSL, inputHSL, colorScale, darkBasis>>
    /\ UNCHANGED <<contrastVars, resultVars, modeVars>>

\* updateColorScales(hexColor) from an event handler: up to the await, and
\* through to its end when the name is in the cache
UpdateColorScales(hexColor) ==
    /\ StoreScales(hexColor)
    /\ IF cacheKey(hexColor) \in DOMAIN colorNameCache
       THEN /\ calls' = Append(calls,
                    cachedCall(hexColor, colorNameCache[cacheKey(hexColor)], "done"))
            /\ Resume(ScaleTable[hexColor], colorNameCache[cacheKey(hexColor)])
       ELSE /\ calls' = Append(calls, awaitingCall(hexColor))
            /\ KeepDisplay
    /\ UNCHANGED colorNameCache

\* The user edits the colour field: the input event, which a change of the
\* text fires, runs handleColorInput
HandleColorInput(text) ==
    /\ pc = "ready"
    /\ Len(calls) < MaxCalls
    /\ text # hexInput
    /\ hexInput' = text
    /\ IF isValidHex(inputColor(text))
       THEN /\ colorPreview' = inputColor(text)
            /\ colorPickerValue' = pickerValueOf(inputColor(text))
            /\ errorDisplay' = "none"
            /\ UpdateColorScales(inputColor(text))
       ELSE /\ colorPreview' = <<"#", "f", "f", "f", "f", "f", "f">>
            /\ errorDisplay' = "block"
            /\ KeepScales
            /\ KeepDisplay
            /\ UNCHANGED <<colorPickerValue, colorNameCache, calls>>
    /\ pc' = pc
    /\ UNCHANGED <<originalHSL, accessibleHSL, inputHSL, colorScale, darkBasis>>
    /\ UNCHANGED <<contrastVars, resultVars, modeVars>>

\* The user picks another colour: the input event runs
\* handleColorPickerChange
HandleColorPickerChange(color) ==
    /\ pc = "ready"
    /\ Len(calls) < MaxCalls
    /\ color # colorPickerValue
    /\ colorPickerValue' = color
    /\ hexInput' = Tail(color)
    /\ colorPreview' = color
    /\ errorDisplay' = "none"
    /\ UpdateColorScales(color)
    /\ pc' = pc
    /\ UNCHANGED <<originalHSL, accessibleHSL, inputHSL, colorScale, darkBasis>>
    /\ UNCHANGED <<contrastVars, resultVars, modeVars>>

\* getColorName has its name: getCachedColorName stores it, and the
\* updateColorScales call that awaits it runs its remaining lines
NameArrives(i, outcome, name) ==
    /\ colorNameCache' = cacheSet(colorNameCache, cacheKey(calls[i].hexColor), name)
    /\ calls' = [calls EXCEPT ![i].stage = endStage(calls[i], accessibleScale),
                              ![i].outcome = outcome,
                              ![i].name = name]
    /\ KeepScales
    /\ Resume(calls[i], name)

\* The fetch of call i settles
FetchSettles(i, outcome) ==
    /\ pc = "ready"
    /\ calls[i].stage = "fetch"
    /\ IF outcome = "ok"
       THEN /\ calls' = [calls EXCEPT ![i].stage = "json"]
            /\ KeepScales
            /\ KeepDisplay
            /\ UNCHANGED colorNameCache
       ELSE NameArrives(i, outcome, settledName(cacheKey(calls[i].hexColor), outcome))
    /\ pc' = pc
    /\ UNCHANGED <<hexInput, colorPickerValue, colorPreview, errorDisplay>>
    /\ UNCHANGED <<originalHSL, accessibleHSL, inputHSL, colorScale, darkBasis>>
    /\ UNCHANGED <<contrastVars, resultVars, modeVars>>

\* response.json() of call i settles
JsonSettles(i, outcome) ==
    /\ pc = "ready"
    /\ calls[i].stage = "json"
    /\ NameArrives(i, outcome, settledName(cacheKey(calls[i].hexColor), outcome))
    /\ pc' = pc
    /\ UNCHANGED <<hexInput, colorPickerValue, colorPreview, errorDisplay>>
    /\ UNCHANGED <<originalHSL, accessibleHSL, inputHSL, colorScale, darkBasis>>
    /\ UNCHANGED <<contrastVars, resultVars, modeVars>>

UiNext ==
    \/ PageLoad
    \/ \E text \in FieldTexts : HandleColorInput(text)
    \/ \E color \in PickerColors : HandleColorPickerChange(color)
    \/ \E i \in 1..Len(calls), outcome \in FetchOutcomes : FetchSettles(i, outcome)
    \/ \E i \in 1..Len(calls), outcome \in JsonOutcomes : JsonSettles(i, outcome)

UiSpec == UiInit /\ [][UiNext]_vars

---------------------------------------------------------------------------
(* The page with its dark-mode toggle and texts that are not hex colours   *)

\* Texts of the colour field that fail isValidHex: five digits, and letters
\* that are not hex digits
InvalidTexts == { <<"7", "5", "7", "5", "7">>, <<"#", "g", "g", "g">> }

\* Variant of handleDarkModeToggle that stores the scale it displays as the
\* light scale
HandleDarkModeToggle_StoresDisplayed ==
    /\ pc = "ready"
    /\ isDarkModeActive' = ~isDarkModeActive
    /\ renderedScale' = displayedScale(isDarkModeActive', lightModeScale, darkModeScale)
    /\ renderedAlternative' =
          IF alternativeDisplay # "none"
          THEN alternativeShown(isDarkModeActive', accessibleScale, renderedAlternative)
          ELSE renderedAlternative
    /\ lightModeScale' = displayedScale(isDarkModeActive', lightModeScale, darkModeScale)
    /\ UNCHANGED <<accessibleScale, darkModeScale>>
    /\ pc' = pc
    /\ UNCHANGED <<currentColorName, statusText, alternativeDisplay, cssOutput>>
    /\ UNCHANGED <<hexInput, colorPickerValue, colorPreview, errorDisplay>>
    /\ UNCHANGED <<originalHSL, accessibleHSL, inputHSL, colorScale, darkBasis>>
    /\ UNCHANGED <<contrastVars, nameVars, resultVars>>

\* The user flips the dark-mode toggle: the change event runs
\* handleDarkModeToggle, which reads the toggle, renders the displayed scale
\* in the new mode and, unless the alternative section is hidden, the
\* alternative one; the theme stylesheet follows isDarkModeActive.
HandleDarkModeToggle ==
    /\ pc = "ready"
    /\ isDarkModeActive' = ~isDarkModeActive
    /\ renderedScale' = displayedScale(isDarkModeActive', lightModeScale, darkModeScale)
    /\ renderedAlternative' =
          IF alternativeDisplay # "none"
          THEN alternativeShown(isDarkModeActive', accessibleScale, renderedAlternative)
          ELSE renderedAlternative
    /\ KeepScales
    /\ pc' = pc
    /\ UNCHANGED <<currentColorName, statusText, alternativeDisplay, cssOutput>>
    /\ UNCHANGED <<hexInput, colorPickerValue, colorPreview, errorDisplay>>
    /\ UNCHANGED <<originalHSL, accessibleHSL, inputHSL, colorScale, darkBasis>>
    /\ UNCHANGED <<contrastVars, nameVars, resultVars>>

MaxToggleCalls == 2

\* The steps of the page; a colour is entered while fewer than
\* MaxToggleCalls calls of updateColorScales have been made
ToggleNext ==
    \/ PageLoad
    \/ \E text \in FieldTexts : Len(calls) < MaxToggleCalls /\ HandleColorInput(text)
    \/ \E color \in PickerColors :
          Len(calls) < MaxToggleCalls /\ HandleColorPickerChange(color)
    \/ \E i \in 1..Len(calls), outcome \in FetchOutcomes : FetchSettles(i, outcome)
    \/ \E i \in 1..Len(calls), outcome \in JsonOutcomes : JsonSettles(i, outcome)
    \/ \E text \in InvalidTexts : HandleColorInput(text)
    \/ HandleDarkModeToggle

ToggleSpec == UiInit /\ [][ToggleNext]_vars

---------------------------------------------------------------------------
(* Properties of findAccessibleColor (SearchSpec)                          *)

black == <<0, 0, 0>>

white == <<255, 255, 255>>

\* contrast ratio of an HSL colour against a text colour is at least 4.5
AtLeast45(hsl, textRgb) == RatioGeq(getContrastRatio(hslToRgb(hsl), textRgb), 9, 2)

PassesAA(hsl) == AtLeast45(hsl, black) /\ AtLeast45(hsl, white)

\* the candidates of phase 1 and of phase 2 for an original colour o
Phase1Candidates(o) == { <<o[1], o[2], Num(newL)>> : newL \in 45..65 }

Phase2Candidates(o) ==
    { <<o[1], AddQ(MaxQ(Num(0), SubQ(o[2], Num(20))), Num(5 * k)), Num(newL)>> :
        k \in { j \in 0..8 : LeqQ(AddQ(MaxQ(Num(0), SubQ(o[2], Num(20))), Num(5 * j)),
                                  MinQ(Num(100), AddQ(o[2], Num(20)))) },
        newL \in 45..65 }

\* C1: findAccessibleColor returns either a candidate (a whole lightness in
\* 45..65) whose contrast ratio is at least 4.5 against black and against
\* white, or exactly the fallback (195, 60, 55); never the untested original
\* colour nor a candidate that failed the test.
C1_ResultPassesOrIsFallback ==
    pc = "found" =>
        \/ accessibleHSL = fallbackHSL
        \/ /\ accessibleHSL[3] \in { Num(newL) : newL \in 45..65 }
           /\ AtLeast45(accessibleHSL, black)
           /\ AtLeast45(accessibleHSL, white)

\* C1 witness: the search was needed (the original fails) and found a colour
C1_Witness ==
    /\ pc = "found"
    /\ ~PassesAA(originalHSL)
    /\ accessibleHSL # fallbackHSL
    /\ accessibleHSL # originalHSL

\* C2: the fallback (195, 60, 55), returned when no phase finds a candidate,
\* itself has contrast ratio at least 4.5 against black and against white.
C2_FallbackPassesAA ==
    (pc = "found" /\ ~(\E c \in Phase1Candidates(originalHSL) : PassesAA(c))
                  /\ accessibleHSL = fallbackHSL)
        => (AtLeast45(accessibleHSL, black) /\ AtLeast45(accessibleHSL, white))

\* C3: the phases run in order and a later phase runs only when every earlier
\* one found nothing: when some phase-1 candidate passes, the result keeps the
\* original hue and saturation; when none does but some phase-2 candidate
\* passes, the result keeps the original hue.
C3_EarlierPhaseWins ==
    pc = "found" =>
        IF \E c \in Phase1Candidates(originalHSL) : PassesAA(c)
        THEN /\ accessibleHSL[1] = originalHSL[1]
             /\ accessibleHSL[2] = originalHSL[2]
             /\ accessibleHSL \in Phase1Candidates(originalHSL)
        ELSE (\E c \in Phase2Candidates(originalHSL) : PassesAA(c))
                => /\ accessibleHSL[1] = originalHSL[1]
                   /\ accessibleHSL \in Phase2Candidates(originalHSL)

\* C3 witness: phase 1 found nothing and phase 2 did
C3_Witness ==
    /\ pc = "found"
    /\ ~(\E c \in Phase1Candidates(originalHSL) : PassesAA(c))
    /\ \E c \in Phase2Candidates(originalHSL) : PassesAA(c)
    /\ accessibleHSL[1] = originalHSL[1]
    /\ accessibleHSL[2] # originalHSL[2]

\* the whole lightnesses of 45..65 that pass with the hue and saturation of o
PassingLightnesses(o) == { newL \in 45..65 : PassesAA(<<o[1], o[2], Num(newL)>>) }

\* |l - newL| for the lightness l of o
LightnessDistance(o, newL) == AbsQ(SubQ(o[3], Num(newL)))

\* the passing lightness nearest to the lightness of o, the lower one of two
\* equally near
NearestPassing(o) ==
    CHOOSE newL \in PassingLightnesses(o) :
        \A other \in PassingLightnesses(o) :
            \/ LessQ(LightnessDistance(o, newL), LightnessDistance(o, other))
            \/ /\ ~LessQ(LightnessDistance(o, other), LightnessDistance(o, newL))
               /\ newL <= other

\* C21: when some whole lightness of 45..65 passes with the original hue and
\* saturation, the result is the original hue and saturation with the passing
\* lightness nearest to the original one, and the lower lightness when two
\* passing lightnesses are equally near.
C21_NearestPassingLightness ==
    (pc # "input" /\ PassingLightnesses(originalHSL) # {}) =>
        accessibleHSL = <<originalHSL[1], originalHSL[2],
                          Num(NearestPassing(originalHSL))>>

\* C21 witness: the original lightness lies halfway between two passing
\* lightnesses and the lower one was returned
C21_Witness ==
    /\ pc = "found"
    /\ \E newL \in 45..64 :
          /\ originalHSL[3] = Rat(2 * newL + 1, 2)
          /\ {newL, newL + 1} \subseteq PassingLightnesses(originalHSL)
          /\ accessibleHSL[3] = Num(newL)

\* The result r was found by a phase: a result other than the fallback always
\* was, and the fallback colour only if it passes the test of the phases.
FoundByAPhase(r) == r # fallbackHSL \/ PassesAA(fallbackHSL)

\* C22: findAccessibleColor applied to a colour that one of its phases found
\* returns that colour.
C22_IdempotentOnFound ==
    (pc = "again" /\ FoundByAPhase(accessibleHSL)) => repeatedHSL = accessibleHSL

\* C22 witness: the original colour fails, a phase found another colour, and
\* the search was applied to that colour
C22_Witness ==
    /\ pc = "again"
    /\ ~PassesAA(originalHSL)
    /\ accessibleHSL # originalHSL
    /\ accessibleHSL # fallbackHSL
    /\ PassesAA(accessibleHSL)
    /\ repeatedHSL = accessibleHSL

\* The hue shifts of phase 3: -30, -25, ..., 30
HueShifts == { 5 * k - 30 : k \in 0..12 }

\* phase 3 ran for the original colour o: phases 1 and 2 found nothing
Phase3Ran(o) ==
    /\ ~(\E c \in Phase1Candidates(o) : PassesAA(c))
    /\ ~(\E c \in Phase2Candidates(o) : PassesAA(c))

\* C20: for every phase-3 candidate the hue term of its distance is the hue
\* shift that produced it divided by 3, at most 10 in magnitude, also where
\* the shifted hue wraps around 0/360.
C20_HueTermIsShiftOver3 ==
    (pc = "found" /\ Phase3Ran(originalHSL)) =>
        \A hueShift \in HueShifts :
            AbsQ(hueTerm(originalHSL[1], shiftHue(originalHSL[1], hueShift)))
                = Rat(Abs(hueShift), 3)

---------------------------------------------------------------------------
(* Properties of the hex round trip (HexSpec)                              *)

\* C16 as stated: the level-400 hex of the scale of a valid 6-digit colour is
\* the normalized input string itself.
C16_HexEqualsNormalized ==
    pc = "hexscale" => findLevel(colorScale, 400).hex = normalizeHex(hexInput)

\* C16 amended: the level-400 record reproduces every channel of the input,
\* and its hex is the normalized input in lower case.
C16_HexEqualsLowercased ==
    pc = "hexscale" =>
        /\ findLevel(colorScale, 400).rgb = hexToRgb(hexInput)
        /\ findLevel(colorScale, 400).hex = toLowerCase(normalizeHex(hexInput))

\* C16 witness: a light chromatic colour typed with capital letters
C16_Witness ==
    /\ pc = "hexscale"
    /\ toLowerCase(hexInput) # hexInput
    /\ inputHSL[2] # Num(0)
    /\ LessQ(Num(50), inputHSL[3])
    /\ findLevel(colorScale, 400).hex # normalizeHex(hexInput)

---------------------------------------------------------------------------
(* Properties of getContrastRatio (ContrastSpec)                           *)

\* a ratio <<n, d>> is at most 21
AtMost21(ratio) ==
    \/ ratio[1] \div ratio[2] < 21
    \/ ratio[1] \div ratio[2] = 21 /\ ratio[1] % ratio[2] = 0

\* C17: getContrastRatio(a, b) equals getContrastRatio(b, a), lies in
\* [1, 21], and is exactly 1 when a = b.
C17_SymmetricBoundedUnit ==
    pc = "ratio" =>
        /\ ratioAB = ratioBA
        /\ ratioAB[1] >= ratioAB[2]
        /\ AtMost21(ratioAB)
        /\ colorA = colorB => ratioAB[1] = ratioAB[2]

\* C17 witness: black against white, the darker colour first, at ratio 21
C17_Witness ==
    /\ pc = "ratio"
    /\ colorA = black
    /\ colorB = white
    /\ ratioAB = <<1050000000, 50000000>>
    /\ ratioBA = ratioAB

---------------------------------------------------------------------------
(* Properties of generateColorScale (ScaleSpec)                            *)

\* C4: the level-400 record of generateColorScale(base) has hsl equal to base
\* exactly, for neutral and chromatic bases: no interpolation, clamping or
\* rounding touches the base level.
C4_Level400IsBase ==
    pc = "scale" => findLevel(colorScale, 400).hsl = inputHSL

\* C4 witness: a base whose components are not whole numbers
C4_Witness ==
    /\ pc = "scale"
    /\ inputHSL[1][2] # 1
    /\ inputHSL[3][2] # 1
    /\ findLevel(colorScale, 400).hsl = inputHSL

\* C6: every record of generateColorScale has the hue of the base, in the
\* neutral branch (saturation < 10) and in the chromatic branch alike.
C6_HuePreserved ==
    pc = "scale" => \A i \in 1..Len(colorScale) : colorScale[i].hsl[1] = inputHSL[1]

\* C6 witness: a neutral base with a hue other than 0
C6_Witness ==
    /\ pc = "scale"
    /\ LessQ(inputHSL[2], Num(10))
    /\ inputHSL[1] # Num(0)
    /\ Len(colorScale) = 7

\* two numbers are equal
SameQ(a, b) == ~LessQ(a, b) /\ ~LessQ(b, a)

\* an HSL triple has hue h, saturation s and lightness l
IsHSL(hsl, h, s, l) == hsl[1] = h /\ SameQ(hsl[2], s) /\ SameQ(hsl[3], l)

InPercentRange(x) == LeqQ(Num(0), x) /\ LeqQ(x, Num(100))

\* C23: at levels 100 and 700 calculateHSL returns the endpoint of its
\* branch: for saturation >= 10 (10 included) level 100 is
\* [h, max(0, s - 1), min(94, l + 44)] and level 700 is
\* [h, min(100, s + 28), max(24, l - 26)]; for saturation < 10 level 100 is
\* [h, 0, 95] and level 700 is [h, s, 28]; every saturation and lightness of
\* the scale lies in [0, 100].
C23_EndpointsAtExtremeLevels ==
    pc = "scale" =>
        LET h == inputHSL[1]
            s == inputHSL[2]
            l == inputHSL[3]
            hsl100 == findLevel(colorScale, 100).hsl
            hsl700 == findLevel(colorScale, 700).hsl
        IN  /\ IF LeqQ(Num(10), s)
               THEN /\ IsHSL(hsl100, h, MaxQ(Num(0), SubQ(s, Num(1))),
                                        MinQ(Num(94), AddQ(l, Num(44))))
                    /\ IsHSL(hsl700, h, MinQ(Num(100), AddQ(s, Num(28))),
                                        MaxQ(Num(24), SubQ(l, Num(26))))
               ELSE /\ IsHSL(hsl100, h, Num(0), Num(95))
                    /\ IsHSL(hsl700, h, s, Num(28))
            /\ \A i \in 1..Len(colorScale) :
                  /\ InPercentRange(colorScale[i].hsl[2])
                  /\ InPercentRange(colorScale[i].hsl[3])

\* C23 witness: a base with saturation exactly 10 whose level-100 record has
\* saturation 9
C23_Witness ==
    /\ pc = "scale"
    /\ inputHSL[2] = Num(10)
    /\ findLevel(colorScale, 100).hsl[2] = Num(9)
    /\ findLevel(colorScale, 700).hsl[2] = Num(38)

\* The hue ranges of the twelve names: lo <= h < hi, and h <= 360 for the
\* last one
HueBuckets ==
    << <<0, 15, "Red">>, <<15, 45, "Orange">>, <<45, 65, "Yellow">>,
       <<65, 80, "Lime">>, <<80, 150, "Green">>, <<150, 190, "Teal">>,
       <<190, 220, "Cyan">>, <<220, 255, "Blue">>, <<255, 280, "Indigo">>,
       <<280, 320, "Purple">>, <<320, 340, "Magenta">>, <<340, 360, "Pink">> >>

InBucket(h, b) ==
    /\ LeqQ(Num(HueBuckets[b][1]), h)
    /\ IF b = Len(HueBuckets) THEN LeqQ(h, Num(HueBuckets[b][2]))
                              ELSE LessQ(h, Num(HueBuckets[b][2]))

\* C24: getGenericColorName returns a name for every colour: "Neutral" when
\* the saturation is below 10, and otherwise, for a hue in [0, 360], the name
\* of the one hue range that holds the hue, never "Custom".
C24_HueBucketsPartition ==
    pc = "named" =>
        IF LessQ(inputHSL[2], Num(10))
        THEN genericName = <<"Neutral">>
        ELSE (LeqQ(Num(0), inputHSL[1]) /\ LeqQ(inputHSL[1], Num(360))) =>
                /\ Cardinality({ b \in 1..Len(HueBuckets) : InBucket(inputHSL[1], b) }) = 1
                /\ \A b \in 1..Len(HueBuckets) :
                      InBucket(inputHSL[1], b) => genericName = <<HueBuckets[b][3]>>
                /\ genericName # <<"Custom">>

\* C24 witness: the hue 360 with saturation exactly 10 is named "Pink"
C24_Witness ==
    /\ pc = "named"
    /\ inputHSL[1] = Num(360)
    /\ inputHSL[2] = Num(10)
    /\ genericName = <<"Pink">>

\* C7: the lightness of the generated scale is ordered by level: it does not
\* increase from level 100 to level 400 nor from level 400 to level 700.
C7_LightnessOrdered ==
    pc = "scale" =>
        \A i \in 1..(Len(colorScale) - 1) :
            LeqQ(colorScale[i + 1].hsl[3], colorScale[i].hsl[3])

---------------------------------------------------------------------------
(* Properties of generateDarkModeScale (DarkSpec)                          *)

Levels(scale) == [ i \in 1..Len(scale) |-> scale[i].level ]

IsAccessible(record) == record.blackPassesNormal /\ record.whitePassesNormal

\* C5: generateColorScale returns exactly 7 records with the levels 100, 200,
\* ..., 700 in that order, and generateDarkModeScale of such a scale returns
\* 7 records with the same levels in the same order.
C5_SevenLevelsInOrder ==
    /\ Levels(lightModeScale) = <<100, 200, 300, 400, 500, 600, 700>>
    /\ accessibleScale # null =>
           Levels(accessibleScale) = <<100, 200, 300, 400, 500, 600, 700>>
    /\ pc = "dark" => Levels(darkModeScale) = <<100, 200, 300, 400, 500, 600, 700>>

\* C5 witness: a dark-mode scale has been produced
C5_Witness ==
    /\ pc = "dark"
    /\ Len(darkModeScale) = 7
    /\ darkModeScale # lightModeScale

\* the levels 100..700 without a record in the scale
MissingLevels(scale) ==
    { level \in {100, 200, 300, 400, 500, 600, 700} : findLevel(scale, level) = undefined }

\* the HSL of the dark-mode record of a level whose pair the basis holds
ProducedNormally(level, basis) ==
    IF level = 400 THEN findLevel(basis, 400).hsl
    ELSE adjustForDarkMode(findLevel(basis, levelMap[level]).hsl)

GuardedLevelsFallBack ==
    (pc = "dark" /\ MissingLevels(darkBasis) # {} /\ 400 \notin MissingLevels(darkBasis)) =>
        /\ darkModeScale # TypeError
        /\ \A i \in 1..Len(lightModeScale) :
              darkModeScale[i].hsl =
                 IF levelMap[lightModeScale[i].level] \in MissingLevels(darkBasis)
                 THEN lightModeScale[i].hsl
                 ELSE ProducedNormally(lightModeScale[i].level, darkBasis)

\* C8: the level-400 record of the dark-mode scale has the hsl of the level-400
\* record of the basis, with no saturation boost: the light scale's when the
\* light base passes AA, else the supplied accessible scale's, else that of
\* findAccessibleColor of the light base.
C8_Level400IsBasis400 ==
    pc = "dark" =>
        LET light400 == findLevel(lightModeScale, 400)
            dark400  == findLevel(darkModeScale, 400)
        IN  IF IsAccessible(light400) THEN dark400.hsl = light400.hsl
            ELSE IF accessibleScale # null
                 THEN dark400.hsl = findLevel(accessibleScale, 400).hsl
                 ELSE dark400.hsl = findAccessibleColor(light400.hsl)

\* C8 witness: the light base fails AA, an accessible scale with another base
\* whose boosted saturation would differ is supplied
C8_Witness ==
    /\ pc = "dark"
    /\ ~IsAccessible(findLevel(lightModeScale, 400))
    /\ accessibleScale # null
    /\ findLevel(accessibleScale, 400).hsl # findLevel(lightModeScale, 400).hsl
    /\ adjustForDarkMode(findLevel(accessibleScale, 400).hsl)
           # findLevel(accessibleScale, 400).hsl
    /\ findLevel(darkModeScale, 400).hsl = findLevel(accessibleScale, 400).hsl

\* C9: for every level L other than 400 the dark-mode record at L derives from
\* the basis record at 800 - L: same hue, same lightness, and saturation
\* min(100, 1.1 x that record's saturation).
C9_ReversedAndBoosted ==
    pc = "dark" =>
        LET basis == darkBasis
        IN  \A L \in {100, 200, 300, 500, 600, 700} :
                LET dark   == findLevel(darkModeScale, L)
                    paired == findLevel(basis, 800 - L)
                IN  /\ dark.hsl[1] = paired.hsl[1]
                    /\ dark.hsl[3] = paired.hsl[3]
                    /\ dark.hsl[2] = MinQ(Num(100), DivQ(MulQ(paired.hsl[2], Num(11)), 10))

\* C9 witness: a basis whose paired records differ in lightness, one boosted
\* saturation capped at 100 and another one not
C9_Witness ==
    /\ pc = "dark"
    /\ LET basis == darkBasis
       IN  /\ findLevel(basis, 700).hsl[3] # findLevel(basis, 100).hsl[3]
           /\ findLevel(darkModeScale, 100).hsl[3] = findLevel(basis, 700).hsl[3]
           /\ findLevel(darkModeScale, 100).hsl[2] = Num(100)
           /\ LessQ(findLevel(basis, 700).hsl[2], Num(100))
           /\ LessQ(findLevel(darkModeScale, 700).hsl[2], Num(100))
           /\ LessQ(findLevel(basis, 100).hsl[2], findLevel(darkModeScale, 700).hsl[2])

\* The basis C10 states
C10_Basis ==
    LET light400 == findLevel(lightModeScale, 400)
    IN  IF light400.blackPassesNormal /\ light400.whitePassesNormal
        THEN lightModeScale
        ELSE IF accessibleScale # null THEN accessibleScale
        ELSE generateColorScale(findAccessibleColor(light400.hsl))

\* C10: the basis is the light scale when its level-400 record passes AA for
\* black and for white (a supplied accessible scale is ignored); otherwise the
\* supplied accessible scale when there is one; otherwise
\* generateColorScale(findAccessibleColor(light level-400 hsl)).
C10_BasisChoice ==
    pc = "dark" =>
        LET basis == C10_Basis
        IN  /\ darkBasis = basis
            /\ \A i \in 1..Len(darkModeScale) :
                   LET paired == findLevel(basis, 800 - darkModeScale[i].level)
                   IN  /\ darkModeScale[i].hsl[1] = paired.hsl[1]
                       /\ darkModeScale[i].hsl[3] = paired.hsl[3]

\* C10 witness: the light base passes AA and a different accessible scale is
\* supplied, which is ignored
C10_Witness ==
    /\ pc = "dark"
    /\ IsAccessible(findLevel(lightModeScale, 400))
    /\ accessibleScale # null
    /\ accessibleScale # lightModeScale
    /\ findLevel(darkModeScale, 100).hsl[3] = findLevel(lightModeScale, 700).hsl[3]
    /\ findLevel(darkModeScale, 100).hsl[3] # findLevel(accessibleScale, 700).hsl[3]

\* the pass flags of one record agree with passesContrastCheck on its colour
FlagsAgree(record) ==
    /\ record.blackPassesNormal = passesContrastCheck(record.rgb, black, FALSE)
    /\ record.blackPassesLarge = passesContrastCheck(record.rgb, black, TRUE)
    /\ record.whitePassesNormal = passesContrastCheck(record.rgb, white, FALSE)
    /\ record.whitePassesLarge = passesContrastCheck(record.rgb, white, TRUE)
    /\ record.blackPassesNormal => record.blackPassesLarge
    /\ record.whitePassesNormal => record.whitePassesLarge

ScaleFlagsAgree(scale) == \A i \in 1..Len(scale) : FlagsAgree(scale[i])

\* C18: in every record of the scales of generateColorScale and of
\* generateDarkModeScale, xPassesNormal is passesContrastCheck at 4.5 and
\* xPassesLarge is passesContrastCheck at 3.0, so normal implies large.
C18_FlagsMatchContrastCheck ==
    pc = "dark" =>
        /\ ScaleFlagsAgree(lightModeScale)
        /\ accessibleScale # null => ScaleFlagsAgree(accessibleScale)
        /\ ScaleFlagsAgree(darkModeScale)

\* C18 witness: a light and a dark record that pass for large text only
C18_Witness ==
    /\ pc = "dark"
    /\ \E i \in 1..Len(lightModeScale) :
          /\ lightModeScale[i].whitePassesLarge
          /\ ~lightModeScale[i].whitePassesNormal
    /\ \E i \in 1..Len(darkModeScale) :
          /\ darkModeScale[i].blackPassesLarge
          /\ ~darkModeScale[i].blackPassesNormal

---------------------------------------------------------------------------
(* Properties of getCachedColorName (NameSpec)                             *)

\* the same hex digits, whatever the letter case and the leading "#"
SameDigits(hex1, hex2) ==
    toLowerCase(stripHash(hex1)) = toLowerCase(stripHash(hex2))

\* some getCachedColorName call for the digits of hexColor has completed
CompletedFor(hexColor) ==
    \E i \in 1..Len(calls) :
        calls[i].stage = "done" /\ SameDigits(calls[i].hexColor, hexColor)

\* the step is a getCachedColorName call
CallMade == Len(calls') = Len(calls) + 1

\* C14: once a getCachedColorName call for a hex has completed, every later
\* call for the same digits, in any letter case and with or without "#",
\* returns the name stored under the lowercased digits and starts no lookup.
C14_CachedAfterCompletion ==
    [][ (CallMade /\ CompletedFor(calls'[Len(calls')].hexColor)) =>
            /\ ~calls'[Len(calls')].fetched
            /\ calls'[Len(calls')].stage = "done"
            /\ calls'[Len(calls')].name =
                   colorNameCache[toLowerCase(stripHash(calls'[Len(calls')].hexColor))]
            /\ colorNameCache' = colorNameCache ]_vars

\* C14 witness: a call answered from the cache whose argument is spelt
\* differently, in letter case and in "#", from the call that filled it
C14_Witness ==
    /\ pc = "names"
    /\ Len(calls) = 2
    /\ calls[1].hexColor = <<"#", "F", "F", "C", "C", "0", "0">>
    /\ calls[1].fetched
    /\ calls[1].stage = "done"
    /\ calls[2].hexColor = <<"f", "f", "c", "c", "0", "0">>
    /\ ~calls[2].fetched
    /\ calls[2].name = calls[1].name

---------------------------------------------------------------------------
(* Properties of the page (UiSpec)                                         *)

\* generateColorScale(findAccessibleColor(base)) for the base of every text
\* that can be handed to updateColorScales
ExpectedAccessible ==
    [ hexColor \in CallColors |->
        scaleOfHSL(accessibleOfHSL(hexToHSLOfText(hexColor))) ]

\* the stored accessible scale is the one expected for the base of the
\* stored light scale
AccessibleOfStoredBase ==
    \E hexColor \in CallColors :
        /\ findLevel(lightModeScale, 400).hsl = hexToHSLOfText(hexColor)
        /\ accessibleScale = ExpectedAccessible[hexColor]

\* C11: between handlers, once updateColorScales has been called,
\* accessibleScale is null exactly when the level-400 record of lightModeScale
\* passes AA normal text on black and on white, and otherwise it is
\* generateColorScale(findAccessibleColor(base)) of that record's colour.
C11_AccessibleScaleMatchesBase ==
    (pc = "ready" /\ calls # <<>>) =>
        /\ accessibleScale = null <=> IsAccessible(findLevel(lightModeScale, 400))
        /\ accessibleScale # null => AccessibleOfStoredBase

\* C11 witness: an inaccessible colour was stored, then an accessible one,
\* and the first call has resumed since
C11_Witness ==
    /\ pc = "ready"
    /\ Len(calls) = 3
    /\ ~calls[1].isAccessible
    /\ calls[1].stage # "fetch"
    /\ calls[3].isAccessible
    /\ accessibleScale = null
    /\ IsAccessible(findLevel(lightModeScale, 400))

\* C12: whatever the entry path, updateColorScales is called only with a
\* string that isValidHex accepts.
C12_OnlyValidHexReachesCore ==
    pc = "ready" => \A i \in 1..Len(calls) : isValidHex(calls[i].hexColor)

\* the calls whose name lookup failed: network error, non-OK status, or no
\* colours in the response
LookupFailed(call) == call.outcome \in {"rejected", "notOk", "empty"}

\* C13: when the name lookup of a call fails, the call gets the generic name
\* of its colour and runs to completion.
C13_FailedLookupCompletes ==
    pc = "ready" =>
        \A i \in 1..Len(calls) :
            LookupFailed(calls[i]) =>
                /\ calls[i].name = genericNameOf(cacheKey(calls[i].hexColor))
                /\ calls[i].stage = "done"

\* every call made so far has run to its end
AllCallsDone ==
    /\ calls # <<>>
    /\ \A i \in 1..Len(calls) : calls[i].stage = "done"

\* the names the colour of the stored scales can be given
NamesOfStored ==
    { apiName(cacheKey(calls[Len(calls)].hexColor)),
      genericNameOf(cacheKey(calls[Len(calls)].hexColor)) }

\* C15: once all calls have finished, the displayed name, the status text and
\* the visibility of the alternative section are those of the colour whose
\* scale is stored in lightModeScale.
C15_DisplayMatchesStoredScale ==
    (pc = "ready" /\ AllCallsDone) =>
        /\ currentColorName \in NamesOfStored
        /\ statusText = IF IsAccessible(findLevel(lightModeScale, 400))
                        THEN "Accessible" ELSE "Not Accessible"
        /\ alternativeDisplay = IF IsAccessible(findLevel(lightModeScale, 400))
                                THEN "none" ELSE "block"

\* call i has its name and has stored it in the cache
Answered(i) == calls[i].stage \in {"done", "threw"}

\* C27: for each cache key at most one network lookup is ever started, and
\* the entry of the key, once written, is never overwritten with another
\* name: no two calls with the same key both start a fetch, and all calls
\* that have stored a name under one key have stored the same name.
C27_OneLookupPerKey ==
    \A i, j \in 1..Len(calls) :
        (i < j /\ cacheKey(calls[i].hexColor) = cacheKey(calls[j].hexColor)) =>
            /\ ~(calls[i].fetched /\ calls[j].fetched)
            /\ (Answered(i) /\ Answered(j)) => calls[i].name = calls[j].name

\* The second half on its own, as a property of every step: an entry of
\* the cache keeps its name
CacheEntriesKept ==
    [][ \A key \in DOMAIN colorNameCache : colorNameCache'[key] = colorNameCache[key] ]_vars

\* C26: a step of handleColorInput that finds the field's text not to be a
\* hex colour shows the error message and leaves lightModeScale,
\* darkModeScale, accessibleScale, currentColorName and the name cache as
\* they were and starts no name lookup; a step of handleDarkModeToggle
\* changes isDarkModeActive and what is rendered, and none of the three
\* stored scales.
C26_RejectedInputAndToggleFrame ==
    [][ /\ (hexInput' # hexInput /\ ~isValidHex(inputColor(hexInput'))) =>
              /\ errorDisplay' = "block"
              /\ UNCHANGED <<lightModeScale, darkModeScale, accessibleScale,
                             currentColorName, colorNameCache, calls>>
        /\ (isDarkModeActive' # isDarkModeActive) =>
              /\ UNCHANGED <<lightModeScale, darkModeScale, accessibleScale>>
              /\ UNCHANGED <<currentColorName, colorNameCache, calls, hexInput,
                             colorPickerValue, cssOutput>> ]_vars

\* C26 witness: scales are stored, the page was switched to dark mode and
\* shows the dark scale, and a text that is not a hex colour was rejected
C26_Witness ==
    /\ pc = "ready"
    /\ hexInput \in InvalidTexts
    /\ errorDisplay = "block"
    /\ isDarkModeActive = TRUE
    /\ Len(darkModeScale) = 7
    /\ renderedScale = darkModeScale
    /\ renderedScale # lightModeScale

\* C19: no resumed call reads the level-400 record of accessibleScale while
\* accessibleScale is null.
C19_NoNullDereference ==
    pc = "ready" => \A i \in 1..Len(calls) : calls[i].stage # "threw"

====
